---- MODULE Spec2Model ----
(***************************************************************************)
(* A model of the query builder and of the streaming iteration (Each /     *)
(* Iterator) of the parse client, src/query.go.                            *)
(***************************************************************************)
EXTENDS Integers, Sequences, FiniteSets, TLC

(***************************************************************************)
(* Bounds of the model and constants of the program.                       *)
(***************************************************************************)
MaxN == 3                 \* largest number of records held by the server
MaxBatch == 2             \* largest small batch size given to SetBatchSize
MaxCalls == 3             \* builder calls in BuilderSpec
MaxTicks == 4              \* ticks fired by the limiter's ticker
MaxBurst == 2              \* largest burst given to SetRateLimit
MaxLen == 3               \* longest string handed to a string match

DefaultBatchSize == 100
MaxBatchSize == 1000

Callers == {"c1", "c2"}
Requesters == {"g1", "g2", "g3"}
Fields == {"x", "objectId"}

\* a *int is the empty sequence (nil) or a one-element sequence
NilPtr == <<>>
PtrTo(n) == <<n>>
Deref(p) == p[1]

\* error values; the nil error is "nil"
NilErr == "nil"
ErrConfig == "cannot iterate over a query with a sort, limit, or skip"
ErrRequest == "request error"
ErrDecode == "decode error"
ErrUser == "caller error"

(***************************************************************************)
(* Values held by the filter document.                                     *)
(***************************************************************************)
Scalar(n) == [t |-> "scalar", v |-> n]
TimeVal(n) == [t |-> "time", v |-> n]
Date(tv) == [t |-> "Date", v |-> tv.v]
NoVal == [t |-> "none", v |-> 0]
EmptyDoc == <<>>

NoEntry == [kind |-> "none", lit |-> NoVal, ops |-> EmptyDoc]
LitEntry(v) == [kind |-> "lit", lit |-> v, ops |-> EmptyDoc]
OpsEntry(m) == [kind |-> "ops", lit |-> NoVal, ops |-> m]

\* m[k] = v on a Go map: the key is added or its value replaced
MapSet(m, k, v) == [j \in (DOMAIN m) \cup {k} |-> IF j = k THEN v ELSE m[j]]

\* the value a comparison stores: time.Time and *time.Time become a Date
DateOrSelf(v) == IF v.t = "time" THEN Date(v) ELSE v

\* faulty variant of MergeOp: the operator sub-document is replaced, not extended
MergeOp_Overwrite(w, f, key, qv) ==
    [w EXCEPT ![f] = OpsEntry(MapSet(EmptyDoc, key, qv))]

\* if cv, ok := q.where[f]; ok { if m, ok := cv.(map); ok { m[key] = qv } }
\* else q.where[f] = map{key: qv}
MergeOp(w, f, key, qv) ==
    IF w[f].kind = "ops"
    THEN [w EXCEPT ![f] = OpsEntry(MapSet(w[f].ops, key, qv))]
    ELSE [w EXCEPT ![f] = OpsEntry(MapSet(EmptyDoc, key, qv))]

GreaterThan(w, f, v) == MergeOp(w, f, "$gt", DateOrSelf(v))

StructVal(id) == [t |-> "struct", v |-> id]
Pointer(sv) == [t |-> "Pointer", v |-> sv.v]
ListVal(vs) == [t |-> "list", v |-> vs]
BoolVal(b) == [t |-> "bool", v |-> b]
StrVal(cs) == [t |-> "string", v |-> cs]
MapVal(m) == [t |-> "map", v |-> m]

\* encodeForRequest: a time becomes a Date, a struct with an Id a Pointer,
\* a slice is encoded element by element, anything else is left as it is
EncodeForRequest(v) ==
    CASE v.t = "time" -> Date(v)
      [] v.t = "struct" -> Pointer(v)
      [] v.t = "list" ->
            ListVal([i \in 1..Len(v.v) |->
                       CASE v.v[i].t = "time" -> Date(v.v[i])
                         [] v.v[i].t = "struct" -> Pointer(v.v[i])
                         [] OTHER -> v.v[i]])
      [] OTHER -> v

\* strings.Replace(s, old, new, -1) on sequences of characters
RECURSIVE ReplaceAll(_, _, _)
ReplaceAll(s, old, new) ==
    IF Len(s) < Len(old) THEN s
    ELSE IF SubSeq(s, 1, Len(old)) = old
         THEN new \o ReplaceAll(SubSeq(s, Len(old) + 1, Len(s)), old, new)
         ELSE <<s[1]>> \o ReplaceAll(Tail(s), old, new)

\* faulty variant of quote: the input is not escaped
quote_NoEscape(re) == <<"\\", "Q">> \o re \o <<"\\", "E">>

quote(re) ==
    <<"\\", "Q">> \o ReplaceAll(re, <<"\\", "E">>, <<"\\", "E", "\\", "\\", "E", "\\", "Q">>)
                  \o <<"\\", "E">>

\* what q.where[f] = qv leaves in the filter: a map[string]interface{} is a
\* sub-document the merging calls extend, any other value is a literal
Held(qv) == IF qv.t = "map" THEN OpsEntry(qv.v) ELSE LitEntry(qv)

\* faulty variant of EqualTo: the value is merged into an existing sub-document
EqualTo_Merge(w, f, v) == MergeOp(w, f, "$eq", EncodeForRequest(v))

EqualTo(w, f, v) == [w EXCEPT ![f] = Held(EncodeForRequest(v))]
NotEqualTo(w, f, v) == MergeOp(w, f, "$ne", EncodeForRequest(v))
GreaterThanOrEqual(w, f, v) == MergeOp(w, f, "$gte", DateOrSelf(v))
LessThan(w, f, v) == MergeOp(w, f, "$lt", DateOrSelf(v))
LessThanOrEqual(w, f, v) == MergeOp(w, f, "$lte", DateOrSelf(v))
In(w, f, vs) == MergeOp(w, f, "$in", ListVal(vs))
NotIn(w, f, vs) == MergeOp(w, f, "$nin", ListVal(vs))
Exists(w, f) == MergeOp(w, f, "$exists", BoolVal(TRUE))
DoesNotExist(w, f) == MergeOp(w, f, "$exists", BoolVal(FALSE))
All(w, f, vs) == MergeOp(w, f, "$all", ListVal(vs))
Contains(w, f, v) == MergeOp(w, f, "$regex", StrVal(quote(v)))
StartsWith(w, f, v) == MergeOp(w, f, "$regex", StrVal(<<"^">> \o quote(v)))
EndsWith(w, f, v) == MergeOp(w, f, "$regex", StrVal(quote(v) \o <<"$">>))

(***************************************************************************)
(* The server: ids 1..nRecords stand for the objectIds in ascending order. *)
(* It honours the objectId constraint, order=objectId and the limit.       *)
(***************************************************************************)
Holds(key, id, arg) ==
    CASE key = "$gt" -> id > arg.v
      [] key = "$gte" -> id >= arg.v
      [] key = "$lt" -> id < arg.v
      [] key = "$lte" -> id <= arg.v
      [] key = "$ne" -> id # arg.v
      [] OTHER -> TRUE

Matches(id, e) ==
    CASE e.kind = "none" -> TRUE
      [] e.kind = "lit" -> e.lit.v = id
      [] OTHER -> \A k \in DOMAIN e.ops : Holds(k, id, e.ops[k])

RECURSIVE Ascending(_, _, _)
Ascending(from, n, e) ==
    IF from > n THEN <<>>
    ELSE IF Matches(from, e) THEN <<from>> \o Ascending(from + 1, n, e)
    ELSE Ascending(from + 1, n, e)

Take(s, l) == IF Len(s) <= l THEN s ELSE SubSeq(s, 1, l)

Page(n, w, l) == Take(Ascending(1, n, w["objectId"]), l)

(***************************************************************************)
(* Wire values (what encoding/json produces for interface{}) and Go        *)
(* values of the destination, src/rest.go.                                 *)
(***************************************************************************)
JNum(n) == [t |-> "float64", v |-> n]
JStr(s) == [t |-> "string", v |-> s]
JBool(b) == [t |-> "bool", v |-> b]
JList(vs) == [t |-> "list", v |-> vs]
JObj(m) == [t |-> "map", v |-> m]
JNull == [t |-> "nil", v |-> 0]

\* the struct type of the destination: TestUser with its embedded Base
FieldKinds == [Id |-> "string", Email |-> "string", FCount |-> "int"]
FieldNames == DOMAIN FieldKinds
\* getFieldNameMap and firstToUpper: the wire name of a field
WireName == [Id |-> "objectId", Email |-> "email", FCount |-> "followers"]

GoVal(k, v) == [t |-> k, v |-> v]
ZeroOf(k) ==
    CASE k = "string" -> GoVal("string", "")
      [] k = "bool" -> GoVal("bool", FALSE)
      [] OTHER -> GoVal(k, 0)
ZeroStruct == [f \in FieldNames |-> ZeroOf(FieldKinds[f])]

\* errors of the request path
Nil == [t |-> "nil", code |-> 0, msg |-> ""]
ErrNoRows == [t |-> "ErrNoRows", code |-> 0, msg |-> "no results returned"]
ErrTransport == [t |-> "transport", code |-> 0, msg |-> ""]
ErrJSON == [t |-> "json", code |-> 0, msg |-> ""]
ErrMarshal == [t |-> "marshal", code |-> 0, msg |-> ""]
ErrExpected(what) == [t |-> "populate", code |-> 0, msg |-> what]
ErrDest == [t |-> "populate", code |-> 0, msg |-> "expected struct or slice"]
parseErrorT(c, m) == [t |-> "parseErrorT", code |-> c, msg |-> m]

\* reflect: Type.AssignableTo and Type.ConvertibleTo between the type of a
\* decoded JSON value and the type of a destination of a basic kind
AssignableTo(st, dk) ==
    \/ st = "float64" /\ dk = "float64"
    \/ st = "string" /\ dk = "string"
    \/ st = "bool" /\ dk = "bool"
    \/ st = "int" /\ dk = "int"

ConvertibleTo(st, dk) ==
    \/ AssignableTo(st, dk)
    \/ st = "float64" /\ dk \in {"int", "int64", "float64"}

Res(e, v) == [err |-> e, val |-> v]

\* populateValue, default branch: a basic destination kind.  The value is
\* set when its type is assignable or convertible; otherwise control falls
\* to the final return nil
PopulateBasic(dk, dv, src) ==
    IF src.t = "nil" THEN Res(Nil, ZeroOf(dk))
    ELSE IF AssignableTo(src.t, dk) THEN Res(Nil, GoVal(dk, src.v))
    ELSE IF ConvertibleTo(src.t, dk) THEN Res(Nil, GoVal(dk, src.v))
    ELSE Res(Nil, dv)

\* populateValue, case reflect.Struct with a decoded object: every key of
\* the object that names a field sets it (a null leaves it)
PopulateStruct(dv, src) ==
    IF src.t = "nil" THEN Res(Nil, ZeroStruct)
    ELSE IF src.t = "map"
    THEN Res(Nil,
             [f \in FieldNames |->
                 IF WireName[f] \in DOMAIN src.v /\ src.v[WireName[f]].t # "nil"
                 THEN PopulateBasic(FieldKinds[f], dv[f], src.v[WireName[f]]).val
                 ELSE dv[f]])
    ELSE Res(ErrExpected("expected map"), dv)

\* populateValue, case reflect.Slice: the destination is emptied, then one
\* element is appended per element of the source until one fails
RECURSIVE PopulateElems(_, _)
PopulateElems(done, rest) ==
    IF Len(rest) = 0 THEN Res(Nil, done)
    ELSE LET r == PopulateStruct(ZeroStruct, Head(rest))
         IN IF r.err # Nil THEN Res(r.err, done)
            ELSE PopulateElems(Append(done, r.val), Tail(rest))

PopulateSlice(dv, src) ==
    IF src.t = "nil" THEN Res(Nil, <<>>)
    ELSE IF src.t = "list" THEN PopulateElems(<<>>, src.v)
    ELSE Res(ErrExpected("expected slice"), dv)

\* a destination is [k |-> kind, v |-> value]; kinds: "struct" (TestUser),
\* "slice" ([]TestUser) and the basic kinds
populateValue(dst, src) ==
    CASE dst.k = "slice" ->
            LET r == PopulateSlice(dst.v, src) IN Res(r.err, [k |-> "slice", v |-> r.val])
      [] dst.k = "struct" ->
            LET r == PopulateStruct(dst.v, src) IN Res(r.err, [k |-> "struct", v |-> r.val])
      [] OTHER ->
            LET r == PopulateBasic(dst.k, dst.v, src) IN Res(r.err, [k |-> dst.k, v |-> r.val])

\* a response body is a decoded JSON value, or text that is not JSON
TextBody == [t |-> "text", v |-> 0]

\* faulty variant of handleResponse: the results are looked at before the count
handleResponse_ResultsFirst(body, dst) ==
    IF body.t # "map" THEN Res(ErrJSON, dst)
    ELSE IF "results" \in DOMAIN body.v
         THEN IF body.v["results"].t = "list" /\ Len(body.v["results"].v) = 0
              THEN Res(ErrNoRows, dst)
              ELSE populateValue(dst, body.v["results"])
         ELSE IF "count" \in DOMAIN body.v
              THEN populateValue(dst, body.v["count"])
              ELSE populateValue(dst, body)

\* handleResponse: the count if there is one, else the results (ErrNoRows
\* when the array is empty), else the object itself
handleResponse(body, dst) ==
    IF body.t # "map" THEN Res(ErrJSON, dst)
    ELSE IF "count" \in DOMAIN body.v
         THEN populateValue(dst, body.v["count"])
         ELSE IF "results" \in DOMAIN body.v
              THEN IF body.v["results"].t = "list" /\ Len(body.v["results"].v) = 0
                   THEN Res(ErrNoRows, dst)
                   ELSE populateValue(dst, body.v["results"])
              ELSE populateValue(dst, body)

\* json.Unmarshal(respBody, &parseErrorT{}): the code and error fields of
\* the body, zero values for the fields it lacks
UnmarshalError(body) ==
    IF body.t # "map" THEN ErrJSON
    ELSE IF "code" \in DOMAIN body.v /\ body.v["code"].t \notin {"float64", "nil"} THEN ErrJSON
    ELSE IF "error" \in DOMAIN body.v /\ body.v["error"].t \notin {"string", "nil"} THEN ErrJSON
    ELSE parseErrorT(IF "code" \in DOMAIN body.v /\ body.v["code"].t = "float64"
                     THEN body.v["code"].v ELSE 0,
                     IF "error" \in DOMAIN body.v /\ body.v["error"].t = "string"
                     THEN body.v["error"].v ELSE "")

\* the headers doRequest adds to a request
AppIdHeader == "X-Parse-Application-Id"
RestKeyHeader == "X-Parse-REST-API-Key"
MasterKeyHeader == "X-Parse-Master-Key"
SessionTokenHeader == "X-Parse-Session-Token"

\* faulty variant of Headers: the master key is sent although a session is bound
Headers_MasterOverSession(useMK, sess, mk) ==
    {AppIdHeader} \cup
    (IF useMK /\ mk # ""
     THEN {MasterKeyHeader}
     ELSE {RestKeyHeader} \cup (IF sess # NilPtr THEN {SessionTokenHeader} ELSE {}))

Headers(useMK, sess, mk) ==
    {AppIdHeader} \cup
    (IF useMK /\ mk # "" /\ sess = NilPtr
     THEN {MasterKeyHeader}
     ELSE {RestKeyHeader} \cup (IF sess # NilPtr THEN {SessionTokenHeader} ELSE {}))

NoBody == [t |-> "nobody", v |-> 0]
NoReq == [op |-> "otInval", instId |-> NilPtr, limit |-> NilPtr, count |-> NilPtr,
          useMasterKey |-> FALSE, headers |-> {}]
NoResp == [k |-> "none", status |-> 0, body |-> NoBody]

VARIABLES
    \* queryT
    qLimit, qSkip, qOrderBy, batchSize, where,
    \* result of the last call of Each
    eachRet,
    \* Iterator
    itExists, iterating, itErr, mu, cancelCh, resChan, resClosed, rcClosed,
    \* the goroutine started by Each
    pc, err, batch, idx,
    \* the server and the element type
    nRecords, hasId, inflight,
    \* callers of Cancel and CancelError
    cpc, ckind,
    \* what the consumer received and what was sent
    delivered, requests, doneSent, doneRecv, stopKind, everCancel, sizeArg,
    \* builder calls (BuilderSpec)
    lastVal, usedEq, eqArg, nCalls,
    \* the string handed to Contains, StartsWith and EndsWith (QuoteSpec)
    strIn,
    \* queryT and clientT fields read by doRequest, the destination bound to
    \* the query, and the last terminal operation: what it sent, what came
    \* back and what it returned (TermSpec)
    qCount, qOp, instId, useMaster, session, masterKey, dest, prevDest,
    sentNow, lastReq, lastOp, lastErr, lastRet, lastResp,
    \* queryT.include and queryT.keys, and the last call of Clone: whether
    \* there was one, the query it returned and its receiver (CloneSpec)
    qInclude, qKeys, cloned, clone, cloneSrc,
    \* for each field, whether the filter entries of the query and of its
    \* clone are one and the same map (AliasSpec)
    shared,
    \* the last call of populateValue on its own: which kind of call, the
    \* kind of the destination, the wire value, the destination after the
    \* call and the error returned (DecodeSpec)
    decOp, decKind, decSrc, decDst, decErr,
    \* the rate limiter: the capacity of rateLimiterT.c and the number of
    \* times it holds, the ticker (ticks fired, ticks dropped, its one-slot
    \* channel), the forwarding goroutine, the goroutines inside doRequest,
    \* and the requests past limit() and past Do (LimiterSpec)
    limBurst, limC, ticks, dropped, tickBuf, fwdPc, rpc, passed, sent,
    \* updateT.values: the pending operation of each key (UpdateSpec)
    values,
    \* the package-level map fieldNameCache and the goroutines writing to
    \* it, the goroutines inside getFieldNameMap (where each is, its type,
    \* its fieldMap, what it returned), and whether the runtime has stopped
    \* the process (FieldMapSpec, CacheSpec)
    fieldNameCache, mapWriters, gpc, gType, gMap, gRet, fatal

qVars == <<qLimit, qSkip, qOrderBy, batchSize, where>>
itVars == <<itExists, iterating, itErr, mu, cancelCh, resChan, resClosed, rcClosed>>
goVars == <<pc, err, batch, idx>>
envVars == <<nRecords, hasId>>
callVars == <<cpc, ckind>>
histVars == <<delivered, requests, doneSent, doneRecv, stopKind, everCancel, inflight>>
argVars == <<sizeArg>>
bldVars == <<lastVal, usedEq, eqArg, nCalls>>
termVars == <<qCount, qOp, instId, useMaster, session, masterKey, dest, prevDest,
              sentNow, lastReq, lastOp, lastErr, lastRet, lastResp>>
cloneVars == <<qInclude, qKeys, cloned, clone, cloneSrc, shared>>
decVars == <<decOp, decKind, decSrc, decDst, decErr>>
limVars == <<limBurst, limC, ticks, dropped, tickBuf, fwdPc, rpc, passed, sent>>
updVars == <<values>>
cacheVars == <<fieldNameCache, mapWriters, gpc, gType, gMap, gRet, fatal>>
sideVars == <<strIn, cloneVars, decVars, limVars, updVars, cacheVars>>
auxVars == <<termVars, sideVars>>
vars == <<qVars, eachRet, itVars, goVars, envVars, callVars, histVars, argVars, bldVars, auxVars>>

(***************************************************************************)
(* Initial state: NewQuery, before any builder call.                       *)
(***************************************************************************)
InitQuery ==
    /\ qLimit = NilPtr
    /\ qSkip = NilPtr
    /\ qOrderBy = <<>>
    /\ batchSize = 0
    /\ where = [f \in Fields |-> NoEntry]

InitIterator ==
    /\ itExists = FALSE
    /\ iterating = FALSE
    /\ itErr = NilErr
    /\ mu = "free"
    /\ cancelCh = <<>>
    /\ resChan = <<>>
    /\ resClosed = FALSE
    /\ rcClosed = FALSE

InitRest ==
    /\ eachRet = "none"
    /\ pc = "none"
    /\ err = NilErr
    /\ batch = <<>>
    /\ idx = 0
    /\ inflight = 0
    /\ cpc = [c \in Callers |-> "idle"]
    /\ ckind = [c \in Callers |-> "Cancel"]
    /\ delivered = <<>>
    /\ requests = <<>>
    /\ doneSent = <<>>
    /\ doneRecv = <<>>
    /\ stopKind = "none"
    /\ sizeArg = NilPtr
    /\ everCancel = FALSE
    /\ lastVal = [f \in Fields |-> EmptyDoc]
    /\ usedEq = [f \in Fields |-> FALSE]
    /\ eqArg = [f \in Fields |-> NoVal]
    /\ nCalls = 0

\* a query on which no terminal operation has run
InitTerm ==
    /\ qCount = NilPtr
    /\ qOp = "otInval"
    /\ instId = NilPtr
    /\ useMaster = FALSE
    /\ sentNow = 0
    /\ lastReq = NoReq
    /\ lastOp = "none"
    /\ lastErr = Nil
    /\ lastRet = 0
    /\ lastResp = NoResp

\* Initialize("app_id", "rest_key", "master_key") and NewQuery(&TestUser{})
InitClient ==
    /\ masterKey = "master_key"
    /\ session = NilPtr
    /\ dest = [k |-> "struct", v |-> ZeroStruct]
    /\ prevDest = dest

\* the zero queryT
NoQuery ==
    [op |-> "otInval", instId |-> NilPtr, session |-> NilPtr, useMasterKey |-> FALSE,
     limit |-> NilPtr, skip |-> NilPtr, count |-> NilPtr, orderBy |-> <<>>,
     batchSize |-> 0, where |-> [f \in Fields |-> NoEntry], include |-> {}, keys |-> {}]

\* NewQuery: no included field, no selected key; Clone not called yet
InitClone ==
    /\ qInclude = {}
    /\ qKeys = {}
    /\ cloned = FALSE
    /\ clone = NoQuery
    /\ cloneSrc = NoQuery
    /\ shared = [f \in Fields |-> FALSE]

\* populateValue not called yet; a string variable holds its zero value
InitDecode ==
    /\ decOp = "none"
    /\ decKind = "string"
    /\ decSrc = JNull
    /\ decDst = [k |-> "string", v |-> ZeroOf("string")]
    /\ decErr = Nil

\* newRateLimiter(limit, burst): an empty channel of capacity burst, the
\* goroutine about to receive its first tick, no request under way
InitLimiter(burst) ==
    /\ limBurst = burst
    /\ limC = 0
    /\ ticks = 0
    /\ dropped = 0
    /\ tickBuf = 0
    /\ fwdPc = "recv"
    /\ rpc = [r \in Requesters |-> "idle"]
    /\ passed = 0
    /\ sent = 0

\* NewUpdate: no pending operation
NoOp == [type |-> "none", v |-> [t |-> "nil", v |-> 0]]
UpdKeys == {"email", "followers"}
InitUpdate ==
    values = [k \in UpdKeys |-> NoOp]

\* a struct type is the sequence of its fields; a field has a name, the
\* parts of its parse tag between commas, the Anonymous flag, a PkgPath
\* (empty when the field is exported), a kind and, for a struct or a
\* pointer to a struct, the fields of that struct
Field(n, tag) ==
    [name |-> n, tag |-> tag, anonymous |-> FALSE, pkgPath |-> "", kind |-> "string",
     elem |-> <<>>]
Unexported(n, tag) == [Field(n, tag) EXCEPT !.pkgPath = "parse"]
StructField(n, tag, fs) == [Field(n, tag) EXCEPT !.kind = "struct", !.elem = fs]
Embedded(n, fs) == [StructField(n, <<"">>, fs) EXCEPT !.anonymous = TRUE]
EmbeddedPtr(n, fs) == [Embedded(n, fs) EXCEPT !.kind = "ptr"]

\* types.go: Base, and types that embed it as the README's examples do
Base == <<Field("Id", <<"objectId">>), Field("CreatedAt", <<"-">>),
          StructField("ACL", <<"ACL", "omitempty">>, <<Unexported("public", <<"">>)>>)>>
TypeList ==
    <<<<Embedded("Base", Base), Field("Email", <<"email">>), Field("FCount", <<"followers">>)>>,
      <<Embedded("Base", Base), Field("Key", <<"objectId">>)>>,
      <<Field("Key", <<"objectId">>), EmbeddedPtr("Base", Base)>>,
      <<Field("Name", <<"">>), Field("Skip", <<"-">>), Unexported("hidden", <<"h">>),
        Field("Email", <<"email">>)>>,
      <<Embedded("Mid", <<Embedded("Base", Base), Field("Email", <<"email">>)>>),
        Field("Mail", <<"email">>)>>,
      <<Embedded("base", <<Field("Id", <<"objectId">>)>>),
        Embedded("Other", <<Field("Uid", <<"objectId">>), Field("Email", <<"email">>)>>)>>>>
Types == DOMAIN TypeList

\* getFields: the fields of t in the order of declaration, an anonymous
\* struct (or pointer to one) replaced by its own fields, unexported
\* fields left out
RECURSIVE getFields(_)
getFields(t) ==
    IF Len(t) = 0 THEN <<>>
    ELSE LET f == Head(t)
             ftKind == IF f.kind = "ptr" THEN "struct" ELSE f.kind
             here == IF ftKind = "struct" /\ f.anonymous THEN getFields(f.elem)
                     ELSE IF f.pkgPath = "" THEN <<f>>
                     ELSE <<>>
         IN here \o getFields(Tail(t))

parseTag(tag) == [name |-> tag[1], options |-> IF Len(tag) > 1 THEN tag[2] ELSE ""]

\* a map[string]string is the set of its <<key, value>> pairs
\* faulty variant of MapPut: a key that is present keeps its value
MapPut_KeepFirst(m, k, v) ==
    IF \E p \in m : p[1] = k THEN m ELSE m \cup {<<k, v>>}

\* fieldMap[name] = f.Name
MapPut(m, k, v) == {p \in m : p[1] # k} \cup {<<k, v>>}

\* getFieldNameMap, its loop over the fields
RECURSIVE FieldMapLoop(_, _)
FieldMapLoop(m, fields) ==
    IF Len(fields) = 0 THEN m
    ELSE LET f == Head(fields)
             name == parseTag(f.tag).name
         IN FieldMapLoop(IF name # "" /\ name # "-" THEN MapPut(m, name, f.name) ELSE m,
                         Tail(fields))

\* an entry of fieldNameCache: whether the key is present, and its value
NoEntryFor == [ok |-> FALSE, m |-> {}]
Goroutines == {"g1", "g2"}

\* the package as loaded: an empty cache, nobody inside getFieldNameMap
InitCache ==
    /\ fieldNameCache = [t \in Types |-> NoEntryFor]
    /\ mapWriters = {}
    /\ gpc = [g \in Goroutines |-> "idle"]
    /\ gType = [g \in Goroutines |-> 1]
    /\ gMap = [g \in Goroutines |-> {}]
    /\ gRet = [g \in Goroutines |-> {}]
    /\ fatal = FALSE

InitExtra ==
    /\ InitClone
    /\ InitDecode
    /\ InitLimiter(0)
    /\ InitUpdate
    /\ InitCache

InitAux ==
    /\ strIn = <<>>
    /\ InitTerm
    /\ InitClient
    /\ InitExtra

Init ==
    /\ InitQuery
    /\ InitIterator
    /\ InitRest
    /\ InitAux
    /\ nRecords \in 0..MaxN
    /\ hasId \in BOOLEAN

(***************************************************************************)
(* Builder calls made before Each.                                         *)
(***************************************************************************)
BatchInputs == (0..MaxBatch) \cup {MaxBatchSize, MaxBatchSize + 1}
LimitInputs == {0, 1}
SkipInputs == {0, 1}
OrderInputs == {<<>>, <<"-createdAt">>}


\* faulty variant of SetBatchSize: no upper limit
SetBatchSize_NoClamp(size) ==
    /\ ~itExists
    /\ batchSize' = size
    /\ sizeArg' = PtrTo(size)
    /\ UNCHANGED <<qLimit, qSkip, qOrderBy, where>>
    /\ UNCHANGED <<eachRet, itVars, goVars, envVars, callVars, histVars, bldVars, auxVars>>

SetBatchSize(size) ==
    /\ ~itExists
    /\ batchSize' = IF size <= MaxBatchSize THEN size ELSE DefaultBatchSize
    /\ sizeArg' = PtrTo(size)
    /\ UNCHANGED <<qLimit, qSkip, qOrderBy, where>>
    /\ UNCHANGED <<eachRet, itVars, goVars, envVars, callVars, histVars, bldVars, auxVars>>

Limit(l) ==
    /\ ~itExists
    /\ qLimit' = PtrTo(l)
    /\ UNCHANGED <<qSkip, qOrderBy, batchSize, where>>
    /\ UNCHANGED <<eachRet, itVars, goVars, envVars, callVars, histVars, argVars, bldVars, auxVars>>

Skip(s) ==
    /\ ~itExists
    /\ qSkip' = PtrTo(s)
    /\ UNCHANGED <<qLimit, qOrderBy, batchSize, where>>
    /\ UNCHANGED <<eachRet, itVars, goVars, envVars, callVars, histVars, argVars, bldVars, auxVars>>

OrderBy(fs) ==
    /\ ~itExists
    /\ qOrderBy' = fs
    /\ UNCHANGED <<qLimit, qSkip, batchSize, where>>
    /\ UNCHANGED <<eachRet, itVars, goVars, envVars, callVars, histVars, argVars, bldVars, auxVars>>

(***************************************************************************)
(* Each: the checks, the forced order and limit, newIterator and the       *)
(* start of the goroutine.                                                 *)
(***************************************************************************)

\* faulty variant of HasPaging: the skip is not looked at
HasPaging_NoSkip == qLimit # NilPtr \/ Len(qOrderBy) > 0

HasPaging == qLimit # NilPtr \/ qSkip # NilPtr \/ Len(qOrderBy) > 0

EachLimit == IF batchSize > 0 THEN batchSize ELSE DefaultBatchSize

Each ==
    /\ IF HasPaging
       THEN /\ eachRet' = ErrConfig
            /\ UNCHANGED <<qVars, itVars, goVars>>
       ELSE /\ qOrderBy' = <<"objectId">>
            /\ qLimit' = PtrTo(EachLimit)
            /\ UNCHANGED <<qSkip, batchSize, where>>
            /\ itExists' = TRUE
            /\ iterating' = FALSE
            /\ itErr' = NilErr
            /\ mu' = "free"
            /\ cancelCh' = <<>>
            /\ resChan' = <<>>
            /\ resClosed' = FALSE
            /\ rcClosed' = FALSE
            /\ pc' = "start"
            /\ UNCHANGED <<err, batch, idx>>
            /\ eachRet' = "iterator"
    /\ UNCHANGED <<envVars, callVars, histVars, argVars, bldVars, auxVars>>

(***************************************************************************)
(* The goroutine of Each.                                                  *)
(***************************************************************************)
MaxRequests == MaxN + 1

\* what payload() puts in the request
Payload == [where |-> where, limit |-> qLimit, skip |-> qSkip, order |-> qOrderBy]

\* i.iterating = true
GoStart ==
    /\ pc = "start"
    /\ iterating' = TRUE
    /\ pc' = "check"
    /\ UNCHANGED <<itExists, itErr, mu, cancelCh, resChan, resClosed, rcClosed>>
    /\ UNCHANGED <<err, batch, idx>>
    /\ UNCHANGED <<qVars, eachRet, envVars, callVars, histVars, argVars, bldVars, auxVars>>


\* faulty variant of GoCheckCancel: an unlabelled break, which leaves only the select
GoCheckCancel_PlainBreak ==
    /\ pc = "check"
    /\ IF Len(cancelCh) > 0
       THEN /\ cancelCh' = Tail(cancelCh)
            /\ stopKind' = Head(cancelCh)
            /\ pc' = "request"
       ELSE /\ pc' = "request"
            /\ UNCHANGED <<cancelCh, stopKind>>
    /\ UNCHANGED <<itExists, iterating, itErr, mu, resChan, resClosed, rcClosed>>
    /\ UNCHANGED <<err, batch, idx>>
    /\ UNCHANGED <<delivered, requests, doneSent, doneRecv, everCancel, inflight>>
    /\ UNCHANGED <<qVars, eachRet, envVars, callVars, argVars, bldVars, auxVars>>

\* select { case <-i.cancel: break loop; default: }
GoCheckCancel ==
    /\ pc = "check"
    /\ IF Len(cancelCh) > 0
       THEN /\ cancelCh' = Tail(cancelCh)
            /\ stopKind' = Head(cancelCh)
            /\ pc' = "signal"
       ELSE /\ pc' = "request"
            /\ UNCHANGED <<cancelCh, stopKind>>
    /\ UNCHANGED <<itExists, iterating, itErr, mu, resChan, resClosed, rcClosed>>
    /\ UNCHANGED <<err, batch, idx>>
    /\ UNCHANGED <<delivered, requests, doneSent, doneRecv, everCancel, inflight>>
    /\ UNCHANGED <<qVars, eachRet, envVars, callVars, argVars, bldVars, auxVars>>

\* defaultClient.doRequest(q): the request leaves
GoRequest ==
    /\ pc = "request"
    /\ Len(requests) < MaxRequests
    /\ requests' = Append(requests, Payload)
    /\ inflight' = inflight + 1
    /\ pc' = "await"
    /\ UNCHANGED <<err, batch, idx>>
    /\ UNCHANGED <<delivered, doneSent, doneRecv, stopKind, everCancel>>
    /\ UNCHANGED <<qVars, eachRet, itVars, envVars, callVars, argVars, bldVars, auxVars>>

\* doRequest and handleResponse succeed (ErrNoRows leaves the slice empty)
GoResponse ==
    /\ pc = "await"
    /\ inflight' = inflight - 1
    /\ batch' = Page(nRecords, where, Deref(qLimit))
    /\ idx' = 0
    /\ pc' = "deliver"
    /\ UNCHANGED err
    /\ UNCHANGED <<delivered, requests, doneSent, doneRecv, stopKind, everCancel>>
    /\ UNCHANGED <<qVars, eachRet, itVars, envVars, callVars, argVars, bldVars, auxVars>>


\* faulty variant of GoFail: the error is not stored in the iterator
GoFail_NoRecord(e) ==
    /\ pc = "await"
    /\ inflight' = inflight - 1
    /\ err' = e
    /\ pc' = "sendErr"
    /\ UNCHANGED <<batch, idx>>
    /\ UNCHANGED itVars
    /\ UNCHANGED <<delivered, requests, doneSent, doneRecv, stopKind, everCancel>>
    /\ UNCHANGED <<qVars, eachRet, envVars, callVars, argVars, bldVars, auxVars>>

\* if err != nil { i.err = err
GoFail(e) ==
    /\ pc = "await"
    /\ inflight' = inflight - 1
    /\ err' = e
    /\ itErr' = e
    /\ pc' = "sendErr"
    /\ UNCHANGED <<batch, idx>>
    /\ UNCHANGED <<itExists, iterating, mu, cancelCh, resChan, resClosed, rcClosed>>
    /\ UNCHANGED <<delivered, requests, doneSent, doneRecv, stopKind, everCancel>>
    /\ UNCHANGED <<qVars, eachRet, envVars, callVars, argVars, bldVars, auxVars>>

GoRequestFails == GoFail(ErrRequest)

GoDecodeFails == GoFail(ErrDecode)

\* i.resChan <- err; return }
GoSendErr ==
    /\ pc = "sendErr"
    /\ Len(resChan) < 1
    /\ resChan' = Append(resChan, err)
    /\ doneSent' = Append(doneSent, err)
    /\ pc' = "closeRc"
    /\ UNCHANGED <<err, batch, idx>>
    /\ UNCHANGED <<itExists, iterating, itErr, mu, cancelCh, resClosed, rcClosed>>
    /\ UNCHANGED <<delivered, requests, doneRecv, stopKind, everCancel, inflight>>
    /\ UNCHANGED <<qVars, eachRet, envVars, callVars, argVars, bldVars, auxVars>>

\* reflect.Select: the send of element idx is chosen
GoSend ==
    /\ pc = "deliver"
    /\ idx < Len(batch)
    /\ delivered' = Append(delivered, batch[idx + 1])
    /\ idx' = idx + 1
    /\ UNCHANGED <<pc, err, batch>>
    /\ UNCHANGED <<requests, doneSent, doneRecv, stopKind, everCancel, inflight>>
    /\ UNCHANGED <<qVars, eachRet, itVars, envVars, callVars, argVars, bldVars, auxVars>>

\* reflect.Select: the receive from i.cancel is chosen, break loop
GoSelectCancel ==
    /\ pc = "deliver"
    /\ idx < Len(batch)
    /\ Len(cancelCh) > 0
    /\ cancelCh' = Tail(cancelCh)
    /\ stopKind' = Head(cancelCh)
    /\ pc' = "signal"
    /\ UNCHANGED <<err, batch, idx>>
    /\ UNCHANGED <<itExists, iterating, itErr, mu, resChan, resClosed, rcClosed>>
    /\ UNCHANGED <<delivered, requests, doneSent, doneRecv, everCancel, inflight>>
    /\ UNCHANGED <<qVars, eachRet, envVars, callVars, argVars, bldVars, auxVars>>


\* faulty variants of Advance: the cursor uses $gte, or the first element's Id
Advance_Gte(w, b) ==
    IF hasId THEN MergeOp(w, "objectId", "$gte", Scalar(b[Len(b)])) ELSE w

Advance_First(w, b) ==
    IF hasId THEN GreaterThan(w, "objectId", Scalar(b[1])) ELSE w

\* if s.Elem().Len() < *q.limit { break } else { q.GreaterThan("objectId", id) }
Advance(w, b) ==
    IF hasId THEN GreaterThan(w, "objectId", Scalar(b[Len(b)])) ELSE w


\* faulty variant of GoAdvance: the loop ends on a batch as large as the limit too
GoAdvance_Le ==
    /\ pc = "deliver"
    /\ idx = Len(batch)
    /\ IF Len(batch) <= Deref(qLimit)
       THEN /\ pc' = "signal"
            /\ UNCHANGED where
       ELSE /\ where' = Advance(where, batch)
            /\ pc' = "check"
    /\ UNCHANGED <<qLimit, qSkip, qOrderBy, batchSize>>
    /\ UNCHANGED <<err, batch, idx>>
    /\ UNCHANGED <<eachRet, itVars, envVars, callVars, histVars, argVars, bldVars, auxVars>>

GoAdvance ==
    /\ pc = "deliver"
    /\ idx = Len(batch)
    /\ IF Len(batch) < Deref(qLimit)
       THEN /\ pc' = "signal"
            /\ UNCHANGED where
       ELSE /\ where' = Advance(where, batch)
            /\ pc' = "check"
    /\ UNCHANGED <<qLimit, qSkip, qOrderBy, batchSize>>
    /\ UNCHANGED <<err, batch, idx>>
    /\ UNCHANGED <<eachRet, itVars, envVars, callVars, histVars, argVars, bldVars, auxVars>>

\* i.resChan <- nil
GoSignal ==
    /\ pc = "signal"
    /\ Len(resChan) < 1
    /\ resChan' = Append(resChan, NilErr)
    /\ doneSent' = Append(doneSent, NilErr)
    /\ pc' = "closeRc"
    /\ UNCHANGED <<err, batch, idx>>
    /\ UNCHANGED <<itExists, iterating, itErr, mu, cancelCh, resClosed, rcClosed>>
    /\ UNCHANGED <<delivered, requests, doneRecv, stopKind, everCancel, inflight>>
    /\ UNCHANGED <<qVars, eachRet, envVars, callVars, argVars, bldVars, auxVars>>

\* faulty variant of GoCloseRc: the result channel is left open
GoCloseRc_Skip ==
    /\ pc = "closeRc"
    /\ pc' = "closeDone"
    /\ UNCHANGED <<err, batch, idx>>
    /\ UNCHANGED <<itExists, iterating, itErr, mu, cancelCh, resChan, resClosed, rcClosed>>
    /\ UNCHANGED <<qVars, eachRet, envVars, callVars, histVars, argVars, bldVars, auxVars>>

\* the deferred function: rv.Close()
GoCloseRc ==
    /\ pc = "closeRc"
    /\ rcClosed' = TRUE
    /\ pc' = "closeDone"
    /\ UNCHANGED <<err, batch, idx>>
    /\ UNCHANGED <<itExists, iterating, itErr, mu, cancelCh, resChan, resClosed>>
    /\ UNCHANGED <<qVars, eachRet, envVars, callVars, histVars, argVars, bldVars, auxVars>>

\* close(i.resChan)
GoCloseDone ==
    /\ pc = "closeDone"
    /\ resClosed' = TRUE
    /\ pc' = "clearFlag"
    /\ UNCHANGED <<err, batch, idx>>
    /\ UNCHANGED <<itExists, iterating, itErr, mu, cancelCh, resChan, rcClosed>>
    /\ UNCHANGED <<qVars, eachRet, envVars, callVars, histVars, argVars, bldVars, auxVars>>

\* i.iterating = false
GoClearFlag ==
    /\ pc = "clearFlag"
    /\ iterating' = FALSE
    /\ pc' = "exited"
    /\ UNCHANGED <<err, batch, idx>>
    /\ UNCHANGED <<itExists, itErr, mu, cancelCh, resChan, resClosed, rcClosed>>
    /\ UNCHANGED <<qVars, eachRet, envVars, callVars, histVars, argVars, bldVars, auxVars>>

(***************************************************************************)
(* The consumer takes the completion value from Done().                    *)
(***************************************************************************)
RecvDone ==
    /\ Len(resChan) > 0
    /\ doneRecv' = Append(doneRecv, Head(resChan))
    /\ resChan' = Tail(resChan)
    /\ UNCHANGED <<itExists, iterating, itErr, mu, cancelCh, resClosed, rcClosed>>
    /\ UNCHANGED <<delivered, requests, doneSent, stopKind, everCancel, inflight>>
    /\ UNCHANGED <<qVars, eachRet, goVars, envVars, callVars, argVars, bldVars, auxVars>>

(***************************************************************************)
(* Cancel and CancelError, called on the Iterator from any goroutine.      *)
(***************************************************************************)
\* the call is made
CallCancel(c, kind) ==
    /\ itExists
    /\ cpc[c] = "idle"
    /\ cpc' = [cpc EXCEPT ![c] = "lock"]
    /\ ckind' = [ckind EXCEPT ![c] = kind]
    /\ everCancel' = TRUE
    /\ UNCHANGED <<delivered, requests, doneSent, doneRecv, stopKind, inflight>>
    /\ UNCHANGED <<qVars, eachRet, itVars, goVars, envVars, argVars, bldVars, auxVars>>

\* what a read of i.iterating by a caller can return.  The goroutine writes
\* the flag without holding the mutex, so a read in Cancel is not ordered
\* with its writes: before the first write it returns the initial value,
\* afterwards either value
FlagSeen == IF pc \in {"none", "start"} THEN {iterating} ELSE BOOLEAN

\* i.mu.Lock(); if i.iterating { i.err = err ... } else return (unlocking)
CancelLock(c) ==
    /\ cpc[c] = "lock"
    /\ mu = "free"
    /\ \E seen \in FlagSeen :
         IF seen
         THEN /\ mu' = c
              /\ itErr' = IF ckind[c] = "CancelError" THEN ErrUser ELSE itErr
              /\ cpc' = [cpc EXCEPT ![c] = "send"]
              /\ UNCHANGED ckind
         ELSE /\ cpc' = [cpc EXCEPT ![c] = "idle"]
              /\ ckind' = [ckind EXCEPT ![c] = "Cancel"]
              /\ UNCHANGED <<mu, itErr>>
    /\ UNCHANGED <<itExists, iterating, cancelCh, resChan, resClosed, rcClosed>>
    /\ UNCHANGED <<qVars, eachRet, goVars, envVars, histVars, argVars, bldVars, auxVars>>

\* i.cancel <- 1, then the deferred i.mu.Unlock(); the element is tagged
\* with the call that sent it
CancelSend(c) ==
    /\ cpc[c] = "send"
    /\ Len(cancelCh) < 1
    /\ cancelCh' = Append(cancelCh, ckind[c])
    /\ mu' = "free"
    /\ cpc' = [cpc EXCEPT ![c] = "idle"]
    /\ ckind' = [ckind EXCEPT ![c] = "Cancel"]
    /\ UNCHANGED <<itExists, iterating, itErr, resChan, resClosed, rcClosed>>
    /\ UNCHANGED <<qVars, eachRet, goVars, envVars, histVars, argVars, bldVars, auxVars>>

(***************************************************************************)
(* The iteration: builder calls, Each, its goroutine, the consumer and     *)
(* the callers of Cancel.                                                  *)
(***************************************************************************)
Next ==
    \/ \E size \in BatchInputs : SetBatchSize(size)
    \/ \E l \in LimitInputs : Limit(l)
    \/ \E s \in SkipInputs : Skip(s)
    \/ \E fs \in OrderInputs : OrderBy(fs)
    \/ Each
    \/ GoStart
    \/ GoCheckCancel
    \/ GoRequest
    \/ GoResponse
    \/ GoRequestFails
    \/ GoDecodeFails
    \/ GoSendErr
    \/ GoSend
    \/ GoSelectCancel
    \/ GoAdvance
    \/ GoSignal
    \/ GoCloseRc
    \/ GoCloseDone
    \/ GoClearFlag
    \/ RecvDone
    \/ \E c \in Callers, kind \in {"Cancel", "CancelError"} : CallCancel(c, kind)
    \/ \E c \in Callers : CancelLock(c)
    \/ \E c \in Callers : CancelSend(c)

Spec == Init /\ [][Next]_vars

(***************************************************************************)
(* Properties of the iteration.                                            *)
(***************************************************************************)
PostLoop == {"signal", "sendErr", "closeRc", "closeDone", "clearFlag", "exited"}
AllIds == [i \in 1..nRecords |-> i]
Undisturbed == hasId /\ ~everCancel /\ err = NilErr

\* C1: with a string Id field, no cancellation and no error, every record
\* is sent on the result channel exactly once, in ascending objectId order,
\* and the iteration ends with a nil error on Done and in Error(); at any
\* moment what has been sent is a duplicate-free ascending prefix.
C1_EachDeliversAllOnce ==
    /\ hasId => /\ Len(delivered) <= nRecords
                /\ delivered = SubSeq(AllIds, 1, Len(delivered))
    /\ (Undisturbed /\ pc \in {"closeRc", "closeDone", "clearFlag", "exited"}) =>
           /\ delivered = AllIds
           /\ doneSent = <<NilErr>>
           /\ itErr = NilErr

C1_Witness ==
    /\ pc = "exited"
    /\ Undisturbed
    /\ nRecords = 2
    /\ Deref(qLimit) = 1
    /\ delivered = <<1, 2>>
    /\ doneRecv = <<NilErr>>

\* C2: under the same preconditions one iteration issues exactly
\* floor(N/L)+1 requests, and at no moment is more than one in flight.
C2_RequestCount ==
    /\ inflight <= 1
    /\ (itExists /\ hasId) => Len(requests) <= (nRecords \div Deref(qLimit)) + 1
    /\ (Undisturbed /\ pc \in PostLoop) =>
           Len(requests) = (nRecords \div Deref(qLimit)) + 1

C2_Witness ==
    /\ pc = "exited"
    /\ Undisturbed
    /\ nRecords = 2
    /\ Deref(qLimit) = 2
    /\ Len(requests) = 2

\* C3: after a batch has been delivered, a batch as large as the limit makes
\* the loop continue and the next request carry objectId $gt <Id of the last
\* element of the batch>; a smaller batch (an empty one included) ends the
\* loop, after which no request is issued.
C3_AdvanceRule ==
    /\ [][(pc = "deliver" /\ idx = Len(batch) /\ pc' # pc /\ hasId) =>
            IF Len(batch) = Deref(qLimit)
            THEN /\ pc' = "check"
                 /\ where'["objectId"].kind = "ops"
                 /\ where'["objectId"].ops["$gt"] = Scalar(batch[Len(batch)])
            ELSE /\ Len(batch) < Deref(qLimit)
                 /\ pc' = "signal"]_vars
    /\ [][(requests' # requests /\ Len(requests) > 0 /\ hasId) =>
            /\ Len(batch) = Deref(qLimit)
            /\ requests'[Len(requests')].where["objectId"]
                   = OpsEntry(MapSet(EmptyDoc, "$gt", Scalar(batch[Len(batch)])))]_vars
    /\ [][(pc \in PostLoop) => (requests' = requests /\ pc' \in PostLoop)]_vars

C3_Witness ==
    /\ pc = "exited"
    /\ hasId
    /\ Len(requests) = 2
    /\ delivered = <<1, 2, 3>>
    /\ Deref(qLimit) = 2

\* C4: Each on a query that already has a limit, a skip or a sort order
\* returns the configuration error at once: no iterator, no goroutine, no
\* request, and the result channel is not closed.
C4_EachRejectsPaging ==
    [][(eachRet' # eachRet /\ (qLimit # NilPtr \/ qSkip # NilPtr \/ Len(qOrderBy) > 0)) =>
         /\ eachRet' = ErrConfig
         /\ UNCHANGED <<itVars, goVars, qVars>>
         /\ requests' = requests
         /\ inflight' = inflight]_vars

C4_Witness ==
    /\ eachRet = ErrConfig
    /\ ~itExists
    /\ qSkip = PtrTo(0)
    /\ qLimit = NilPtr
    /\ qOrderBy = <<>>

\* C5: every request of an iteration carries order=objectId and the same
\* limit L: the argument of the last SetBatchSize when it is in 1..1000,
\* and 100 otherwise (never called, 0, above 1000).
ExpectedLimit ==
    IF sizeArg # NilPtr /\ Deref(sizeArg) >= 1 /\ Deref(sizeArg) <= 1000
    THEN Deref(sizeArg)
    ELSE 100

C5_RequestLimitAndOrder ==
    /\ ExpectedLimit \in 1..1000
    /\ \A i \in 1..Len(requests) :
          /\ requests[i].limit = PtrTo(ExpectedLimit)
          /\ requests[i].order = <<"objectId">>

C5_Witness ==
    /\ Len(requests) = 1
    /\ sizeArg = PtrTo(MaxBatchSize + 1)
    /\ requests[1].limit = PtrTo(DefaultBatchSize)

\* C6: once the goroutine has taken the cancel signal it sends no further
\* element and issues no further request, its completion send cannot block,
\* and it ends with one value on Done and both channels closed; a signal
\* pending at the check at the top of the loop prevents that iteration's
\* request.
C6_NothingAfterCancelObserved ==
    /\ [][(stopKind # "none") => (delivered' = delivered /\ requests' = requests)]_vars
    /\ [][(pc = "check" /\ Len(cancelCh) > 0 /\ pc' # pc) =>
            (pc' = "signal" /\ stopKind' # "none")]_vars
    /\ [](stopKind # "none" => pc \in PostLoop)
    /\ [](pc = "signal" => Len(resChan) = 0)
    /\ []((stopKind # "none" /\ pc = "exited") =>
            (rcClosed /\ resClosed /\ Len(doneSent) = 1))

C6_Witness ==
    /\ stopKind = "Cancel"
    /\ pc = "exited"
    /\ delivered = <<1>>
    /\ nRecords = 3
    /\ Len(batch) = 2

C7_CancelAfterEndIsNoop ==
    /\ [][(pc = "exited" /\ \E c \in Callers : cpc[c] = "idle" /\ cpc'[c] = "lock") =>
            ~(mu # "free" /\ Len(cancelCh) = 1)]_vars
    /\ [][(pc = "exited" /\ \E c \in Callers : cpc[c] = "lock" /\ cpc'[c] # "lock") =>
            (cancelCh' = cancelCh /\ itErr' = itErr /\ mu' = mu)]_vars

\* C9: an error that ends the iteration prematurely (request error, decode
\* error, or the error handed to the CancelError that stopped it) is the
\* value sent on Done; Done carries exactly one value and is then closed.
C9_DoneCarriesTerminalError ==
    /\ Len(doneSent) <= 1
    /\ resClosed => Len(doneSent) = 1
    /\ (err # NilErr /\ Len(doneSent) = 1) => doneSent = <<err>>
    /\ (stopKind = "CancelError" /\ Len(doneSent) = 1) => doneSent = <<ErrUser>>

(***************************************************************************)
(* The builder alone: a bounded number of filter calls on one query.       *)
(***************************************************************************)
ScalarArgs == {Scalar(1), Scalar(2)}
CmpArgs == ScalarArgs \cup {TimeVal(1)}
MapArgs == {MapVal(MapSet(EmptyDoc, "$lt", Scalar(2)))}
EqArgs == ScalarArgs \cup {TimeVal(1), StructVal(1)} \cup MapArgs
ListArgs == {<<Scalar(1)>>, <<Scalar(2), Scalar(1)>>}
StrArgs == {<<"A", "l">>, <<"a", "\\", "E">>}

\* one call was made on field f; arg is what the caller passed for key
Called(f, key, arg) ==
    /\ nCalls < MaxCalls
    /\ nCalls' = nCalls + 1
    /\ lastVal' = [lastVal EXCEPT ![f] = MapSet(@, key, arg)]
    /\ eqArg' = [eqArg EXCEPT ![f] = NoVal]
    /\ UNCHANGED usedEq
    /\ UNCHANGED <<qLimit, qSkip, qOrderBy, batchSize>>
    /\ UNCHANGED <<eachRet, itVars, goVars, envVars, callVars, histVars, argVars, auxVars>>

CallEqualTo(f, v) ==
    /\ nCalls < MaxCalls
    /\ nCalls' = nCalls + 1
    /\ where' = EqualTo(where, f, v)
    /\ usedEq' = [usedEq EXCEPT ![f] = TRUE]
    /\ eqArg' = [eqArg EXCEPT ![f] = v]
    /\ lastVal' = [lastVal EXCEPT ![f] = EmptyDoc]
    /\ UNCHANGED <<qLimit, qSkip, qOrderBy, batchSize>>
    /\ UNCHANGED <<eachRet, itVars, goVars, envVars, callVars, histVars, argVars, auxVars>>

CallNotEqualTo(f, v) == where' = NotEqualTo(where, f, v) /\ Called(f, "$ne", v)

CallGreaterThan(f, v) == where' = GreaterThan(where, f, v) /\ Called(f, "$gt", v)

CallGreaterThanOrEqual(f, v) == where' = GreaterThanOrEqual(where, f, v) /\ Called(f, "$gte", v)

CallLessThan(f, v) == where' = LessThan(where, f, v) /\ Called(f, "$lt", v)

CallLessThanOrEqual(f, v) == where' = LessThanOrEqual(where, f, v) /\ Called(f, "$lte", v)

CallIn(f, vs) == where' = In(where, f, vs) /\ Called(f, "$in", ListVal(vs))

CallNotIn(f, vs) == where' = NotIn(where, f, vs) /\ Called(f, "$nin", ListVal(vs))

CallExists(f) == where' = Exists(where, f) /\ Called(f, "$exists", BoolVal(TRUE))

CallDoesNotExist(f) == where' = DoesNotExist(where, f) /\ Called(f, "$exists", BoolVal(FALSE))

CallAll(f, vs) == where' = All(where, f, vs) /\ Called(f, "$all", ListVal(vs))

CallContains(f, v) == where' = Contains(where, f, v) /\ Called(f, "$regex", [t |-> "contains", v |-> v])

CallStartsWith(f, v) == where' = StartsWith(where, f, v) /\ Called(f, "$regex", [t |-> "startsWith", v |-> v])

CallEndsWith(f, v) == where' = EndsWith(where, f, v) /\ Called(f, "$regex", [t |-> "endsWith", v |-> v])

BuilderInit ==
    /\ InitQuery
    /\ InitIterator
    /\ InitRest
    /\ InitAux
    /\ nRecords = 0
    /\ hasId = TRUE

BuilderNext ==
    \/ \E f \in Fields, v \in EqArgs : CallEqualTo(f, v)
    \/ \E f \in Fields, v \in EqArgs : CallNotEqualTo(f, v)
    \/ \E f \in Fields, v \in CmpArgs : CallGreaterThan(f, v)
    \/ \E f \in Fields, v \in CmpArgs : CallGreaterThanOrEqual(f, v)
    \/ \E f \in Fields, v \in CmpArgs : CallLessThan(f, v)
    \/ \E f \in Fields, v \in CmpArgs : CallLessThanOrEqual(f, v)
    \/ \E f \in Fields, vs \in ListArgs : CallIn(f, vs)
    \/ \E f \in Fields, vs \in ListArgs : CallNotIn(f, vs)
    \/ \E f \in Fields : CallExists(f)
    \/ \E f \in Fields : CallDoesNotExist(f)
    \/ \E f \in Fields, vs \in ListArgs : CallAll(f, vs)
    \/ \E f \in Fields, v \in StrArgs : CallContains(f, v)
    \/ \E f \in Fields, v \in StrArgs : CallStartsWith(f, v)
    \/ \E f \in Fields, v \in StrArgs : CallEndsWith(f, v)

BuilderSpec == BuilderInit /\ [][BuilderNext]_vars

\* C10: on a field that only the merging calls were applied to, the filter
\* entry is one operator sub-document holding, for every operator key used,
\* the value of the last call that used that key: a time as a Date, a
\* struct passed to NotEqualTo as a Pointer, a string match as its quoted
\* pattern (\QAl\E for Al, \Qa\E\\E\Q\E for a\E); no later operator removes an earlier, different one.
QuotedArg(cs) ==
    IF cs = <<"A", "l">>
    THEN <<"\\", "Q", "A", "l", "\\", "E">>
    ELSE <<"\\", "Q", "a", "\\", "E", "\\", "\\", "E", "\\", "Q", "\\", "E">>

WireOf(key, arg) ==
    CASE arg.t = "time" /\ key \in {"$ne", "$gt", "$gte", "$lt", "$lte"} ->
            [t |-> "Date", v |-> arg.v]
      [] arg.t = "struct" /\ key = "$ne" -> [t |-> "Pointer", v |-> arg.v]
      [] arg.t = "contains" -> [t |-> "string", v |-> QuotedArg(arg.v)]
      [] arg.t = "startsWith" -> [t |-> "string", v |-> <<"^">> \o QuotedArg(arg.v)]
      [] arg.t = "endsWith" -> [t |-> "string", v |-> QuotedArg(arg.v) \o <<"$">>]
      [] OTHER -> arg

C10_MergeRule ==
    \A f \in Fields :
        ~usedEq[f] =>
            IF DOMAIN lastVal[f] = {}
            THEN where[f] = NoEntry
            ELSE /\ where[f].kind = "ops"
                 /\ DOMAIN where[f].ops = DOMAIN lastVal[f]
                 /\ \A k \in DOMAIN lastVal[f] :
                        where[f].ops[k] = WireOf(k, lastVal[f][k])

C10_Witness ==
    /\ ~usedEq["x"]
    /\ nCalls = 2
    /\ where["x"] = OpsEntry(MapSet(MapSet(EmptyDoc, "$gt", Scalar(1)), "$lte", Scalar(2)))
    /\ lastVal["x"] = MapSet(MapSet(EmptyDoc, "$gt", Scalar(1)), "$lte", Scalar(2))
\* C11: equality is a full overwrite in both directions.  Right after
\* EqualTo(f, v) the filter holds for f the encoding of v alone (a time as a
\* Date, a struct as a Pointer, anything else as it is), whatever literal or
\* operator sub-document it held before; and a merging call on f made right
\* after EqualTo(f, v) with a scalar v leaves a sub-document holding only
\* that call's operator (EqualTo("x",1) then GreaterThan("x",1) gives
\* {"x":{"$gt":1}}).
ExpectedEq(v) ==
    CASE v.t = "time" -> [t |-> "Date", v |-> v.v]
      [] v.t = "struct" -> [t |-> "Pointer", v |-> v.v]
      [] OTHER -> v

C11_EqualityOverwrites ==
    /\ [](\A f \in Fields :
            eqArg[f].t # "none" =>
                where[f] = IF eqArg[f].t = "map"
                           THEN [kind |-> "ops", lit |-> NoVal, ops |-> eqArg[f].v]
                           ELSE [kind |-> "lit", lit |-> ExpectedEq(eqArg[f]), ops |-> EmptyDoc])
    /\ [][\A f \in Fields :
            (eqArg[f].t = "scalar" /\ lastVal'[f] # lastVal[f]) =>
                /\ Cardinality(DOMAIN lastVal'[f]) = 1
                /\ where'[f].kind = "ops"
                /\ DOMAIN where'[f].ops = DOMAIN lastVal'[f]
                /\ \A k \in DOMAIN lastVal'[f] :
                       where'[f].ops[k] = WireOf(k, lastVal'[f][k])]_vars

\* EqualTo("x", 2) has replaced an accumulated sub-document, and on
\* "objectId" a comparison has replaced the literal of an EqualTo
C11_Witness ==
    /\ nCalls >= 3
    /\ eqArg["x"] = Scalar(2)
    /\ where["x"] = LitEntry(Scalar(2))
    /\ usedEq["objectId"]
    /\ eqArg["objectId"] = NoVal
    /\ where["objectId"] = OpsEntry(MapSet(EmptyDoc, "$gt", Scalar(1)))
(***************************************************************************)
(* The string matches alone: Contains, StartsWith and EndsWith applied to  *)
(* one string drawn from all strings of a bounded length.                  *)
(***************************************************************************)
Alphabet == {"\\", "E", "Q", "a"}
Strs == UNION {[1..n -> Alphabet] : n \in 0..MaxLen}

QuoteInit ==
    /\ InitQuery
    /\ InitIterator
    /\ InitRest
    /\ nRecords = 0
    /\ hasId = TRUE
    /\ strIn \in Strs
    /\ InitExtra
    /\ InitTerm
    /\ InitClient

QuoteNext ==
    \/ \E f \in Fields : CallContains(f, strIn)
    \/ \E f \in Fields : CallStartsWith(f, strIn)
    \/ \E f \in Fields : CallEndsWith(f, strIn)

QuoteSpec == QuoteInit /\ [][QuoteNext]_vars

\* C12: Contains, StartsWith and EndsWith set $regex to Q(s), "^" Q(s) and
\* Q(s) "$", where Q(s) is \Q s' \E and s' is s with every E that follows a
\* backslash followed by \\E\Q (every occurrence of \E replaced by
\* \E\\E\Q); read as a regular expression, Q(s) matches the characters of s
\* and nothing else: no \E of the input ends the quoted section.
RECURSIVE Expand(_, _)
Expand(s, i) ==
    IF i > Len(s) THEN <<>>
    ELSE (IF i > 1 /\ s[i] = "E" /\ s[i - 1] = "\\"
          THEN <<"E", "\\", "\\", "E", "\\", "Q">>
          ELSE <<s[i]>>) \o Expand(s, i + 1)

\* the characters a pattern made of \Q..\E sections and escaped characters
\* matches
RECURSIVE Literal(_, _)
Literal(re, quoted) ==
    IF Len(re) = 0 THEN <<>>
    ELSE IF quoted
         THEN IF Len(re) >= 2 /\ re[1] = "\\" /\ re[2] = "E"
              THEN Literal(SubSeq(re, 3, Len(re)), FALSE)
              ELSE <<re[1]>> \o Literal(Tail(re), TRUE)
         ELSE IF Len(re) >= 2 /\ re[1] = "\\"
              THEN IF re[2] = "Q" THEN Literal(SubSeq(re, 3, Len(re)), TRUE)
                   ELSE IF re[2] = "E" THEN Literal(SubSeq(re, 3, Len(re)), FALSE)
                   ELSE <<re[2]>> \o Literal(SubSeq(re, 3, Len(re)), FALSE)
              ELSE <<re[1]>> \o Literal(Tail(re), FALSE)

QuotedForm(s) == <<"\\", "Q">> \o Expand(s, 1) \o <<"\\", "E">>

C12_StringMatchQuoting ==
    \A f \in Fields :
        "$regex" \in DOMAIN lastVal[f] =>
            LET a == lastVal[f]["$regex"]
                q == QuotedForm(a.v)
            IN /\ a.v = strIn
               /\ where[f].kind = "ops"
               /\ "$regex" \in DOMAIN where[f].ops
               /\ where[f].ops["$regex"] =
                     [t |-> "string",
                      v |-> CASE a.t = "contains" -> q
                              [] a.t = "startsWith" -> <<"^">> \o q
                              [] a.t = "endsWith" -> q \o <<"$">>]
               /\ Literal(q, FALSE) = a.v

C12_Witness ==
    /\ strIn = <<"\\", "E", "a">>
    /\ where["x"].kind = "ops"
    /\ "$regex" \in DOMAIN where["x"].ops
    /\ where["x"].ops["$regex"] =
          StrVal(<<"^", "\\", "Q", "\\", "E", "\\", "\\", "E", "\\", "Q", "a", "\\", "E">>)

(***************************************************************************)
(* The request path: doRequest, and the terminal operations of a query.    *)
(***************************************************************************)

\* a float64 that encoding/json refuses to encode (NaN, an infinity)
NaNVal == [t |-> "nan", v |-> 0]

\* payload(): json.Marshal(q.where) succeeds
Encodable(w) == \A f \in Fields : ~(w[f].kind = "lit" /\ w[f].lit.t = "nan")

\* what endpoint() and the header section of doRequest make of the query
RequestOf(o, id, l, c) ==
    [op |-> o, instId |-> IF o = "otGet" THEN id ELSE NilPtr, limit |-> l, count |-> c,
     useMasterKey |-> useMaster, headers |-> Headers(useMaster, session, masterKey)]

\* faulty variant of doRequest: a request that failed in transport is sent again
doRequest_Retry(req, resp) ==
    IF ~Encodable(where) THEN [sent |-> 0, body |-> NoBody, err |-> ErrMarshal]
    ELSE IF resp.k = "transport" THEN [sent |-> 2, body |-> NoBody, err |-> ErrTransport]
    ELSE IF ~(resp.status >= 200 /\ resp.status < 300)
         THEN [sent |-> 1, body |-> NoBody, err |-> UnmarshalError(resp.body)]
         ELSE [sent |-> 1, body |-> resp.body, err |-> Nil]

\* doRequest: no request leaves when the endpoint cannot be built; one
\* request otherwise, which ends in a transport error, in the error of a
\* status outside 200..299, or in the body
doRequest(req, resp) ==
    IF ~Encodable(where) THEN [sent |-> 0, body |-> NoBody, err |-> ErrMarshal]
    ELSE IF resp.k = "transport" THEN [sent |-> 1, body |-> NoBody, err |-> ErrTransport]
    ELSE IF ~(resp.status >= 200 /\ resp.status < 300)
         THEN [sent |-> 1, body |-> NoBody, err |-> UnmarshalError(resp.body)]
         ELSE [sent |-> 1, body |-> resp.body, err |-> Nil]

\* the backend: any failure, or a success that answers the request (the
\* object for a Get, else at most limit rows, with a count if and only if
\* the request asks for one)
Row(id) == JObj([objectId |-> JStr(id)])
RowSeqs == <<(<<>>), <<Row("1")>>, <<Row("1"), Row("2")>>>>
CountVals == <<0, 3>>
ErrBodies ==
    <<JObj([code |-> JNum(101), error |-> JStr("object not found")]),
      JObj([code |-> JStr("101"), error |-> JStr("object not found")]),
      TextBody>>
OkBodies ==
    <<Row("1"), TextBody>>
      \o [i \in 1..Len(RowSeqs) |-> JObj([results |-> JList(RowSeqs[i])])]
      \o [i \in 1..(Len(RowSeqs) * Len(CountVals)) |->
             JObj([results |-> JList(RowSeqs[((i - 1) % Len(RowSeqs)) + 1]),
                   count |-> JNum(CountVals[((i - 1) \div Len(RowSeqs)) + 1])])]
Http(s, b) == [k |-> "http", status |-> s, body |-> b]
ResponseList ==
    <<[k |-> "transport", status |-> 0, body |-> NoBody]>>
      \o [i \in 1..Len(ErrBodies) |-> Http(300, ErrBodies[i])]
      \o [i \in 1..Len(ErrBodies) |-> Http(404, ErrBodies[i])]
      \o [i \in 1..Len(OkBodies) |-> Http(200, OkBodies[i])]
Answers(resp, req) ==
    IF resp.k = "transport" THEN TRUE
    ELSE IF resp.status # 200 THEN TRUE
    ELSE IF resp.body.t # "map" THEN TRUE
    ELSE IF req.op = "otGet" THEN "objectId" \in DOMAIN resp.body.v
    ELSE IF "results" \notin DOMAIN resp.body.v THEN FALSE
    ELSE IF ("count" \in DOMAIN resp.body.v) # (req.count = PtrTo(1)) THEN FALSE
    ELSE IF req.limit = NilPtr THEN TRUE
    ELSE Len(resp.body.v["results"].v) <= Deref(req.limit)

\* what the caller of a terminal operation gets back, and what was sent
Returned(name, req, r, resp, e, ret) ==
    /\ lastOp' = name
    /\ sentNow' = r.sent
    /\ lastReq' = IF r.sent > 0 THEN req ELSE NoReq
    /\ lastResp' = IF r.sent > 0 THEN resp ELSE NoResp
    /\ lastErr' = e
    /\ lastRet' = ret
    /\ prevDest' = dest

TermFrame ==
    /\ UNCHANGED <<qSkip, qOrderBy, batchSize, where>>
    /\ UNCHANGED <<useMaster, session, masterKey>>
    /\ UNCHANGED <<eachRet, itVars, goVars, envVars, callVars, histVars, argVars, bldVars>>
    /\ UNCHANGED sideVars

UseMasterKey ==
    /\ useMaster' = TRUE
    /\ UNCHANGED <<qCount, qOp, instId, session, masterKey, dest, prevDest,
                   sentNow, lastReq, lastOp, lastErr, lastRet, lastResp>>
    /\ UNCHANGED <<qVars, eachRet, itVars, goVars, envVars, callVars, histVars, argVars, bldVars>>
    /\ UNCHANGED sideVars

Get(id, resp) ==
    LET req == RequestOf("otGet", PtrTo(id), qLimit, qCount)
        r == doRequest(req, resp)
        h == handleResponse(r.body, dest)
    IN /\ Answers(resp, req)
       /\ qOp' = "otGet"
       /\ instId' = PtrTo(id)
       /\ UNCHANGED <<qLimit, qCount>>
       /\ dest' = IF r.err = Nil THEN h.val ELSE dest
       /\ Returned("Get", req, r, resp, IF r.err # Nil THEN r.err ELSE h.err, 0)
       /\ TermFrame

Find(resp) ==
    LET req == RequestOf("otQuery", instId, qLimit, qCount)
        r == doRequest(req, resp)
        h == handleResponse(r.body, dest)
    IN /\ Answers(resp, req)
       /\ qOp' = "otQuery"
       /\ UNCHANGED <<qLimit, qCount, instId>>
       /\ dest' = IF r.err = Nil THEN h.val ELSE dest
       /\ Returned("Find", req, r, resp, IF r.err # Nil THEN r.err ELSE h.err, 0)
       /\ TermFrame

\* l := 1; q.limit = &l
FirstLimit == PtrTo(1)

First(resp) ==
    LET req == RequestOf("otQuery", instId, FirstLimit, qCount)
        r == doRequest(req, resp)
    IN /\ Answers(resp, req)
       /\ qOp' = "otQuery"
       /\ qLimit' = FirstLimit
       /\ UNCHANGED <<qCount, instId>>
       /\ CASE dest.k = "struct" ->
                 LET h == handleResponse(r.body, [k |-> "slice", v |-> <<>>])
                 IN /\ dest' = IF r.err = Nil /\ h.err = Nil /\ Len(h.val.v) > 0
                               THEN [k |-> "struct", v |-> h.val.v[1]]
                               ELSE dest
                    /\ Returned("First", req, r, resp, IF r.err # Nil THEN r.err ELSE h.err, 0)
            [] dest.k = "slice" ->
                 LET h == handleResponse(r.body, dest)
                 IN /\ dest' = IF r.err = Nil THEN h.val ELSE dest
                    /\ Returned("First", req, r, resp, IF r.err # Nil THEN r.err ELSE h.err, 0)
            [] OTHER ->
                 /\ dest' = dest
                 /\ Returned("First", req, [sent |-> 0], resp, ErrDest, 0)
       /\ TermFrame

Count(resp) ==
    LET req == RequestOf(qOp, instId, PtrTo(0), PtrTo(1))
        r == doRequest(req, resp)
        h == handleResponse(r.body, [k |-> "int64", v |-> ZeroOf("int64")])
    IN /\ Answers(resp, req)
       /\ qLimit' = PtrTo(0)
       /\ qCount' = PtrTo(1)
       /\ UNCHANGED <<qOp, instId>>
       /\ dest' = dest
       /\ Returned("Count", req, r, resp, IF r.err # Nil THEN r.err ELSE h.err,
                   IF r.err # Nil THEN 0 ELSE h.val.v.v)
       /\ TermFrame

Dests ==
    <<[k |-> "struct", v |-> ZeroStruct],
      [k |-> "struct", v |-> [ZeroStruct EXCEPT !.Id = GoVal("string", "9")]],
      [k |-> "slice", v |-> <<>>],
      [k |-> "slice", v |-> <<[ZeroStruct EXCEPT !.Id = GoVal("string", "9")]>>],
      [k |-> "int", v |-> GoVal("int", 7)]>>

\* Initialize(appId, restKey, masterKey), then NewQuery(v) or
\* Session.NewQuery(v), possibly followed by EqualTo("x", math.NaN())
TermInit ==
    /\ qLimit = NilPtr
    /\ qSkip = NilPtr
    /\ qOrderBy = <<>>
    /\ batchSize = 0
    /\ \/ where = [f \in Fields |-> NoEntry]
       \/ where = EqualTo([f \in Fields |-> NoEntry], "x", NaNVal)
    /\ InitIterator
    /\ InitRest
    /\ nRecords = 0
    /\ hasId = TRUE
    /\ strIn = <<>>
    /\ InitExtra
    /\ InitTerm
    /\ masterKey \in {"", "master_key"}
    /\ session \in {NilPtr, PtrTo("session_token")}
    /\ \E i \in DOMAIN Dests : dest = Dests[i] /\ prevDest = Dests[i]

TermNext ==
    \/ \E l \in LimitInputs : Limit(l)
    \/ UseMasterKey
    \/ \E i \in DOMAIN ResponseList : Get("1", ResponseList[i])
    \/ \E i \in DOMAIN ResponseList : Find(ResponseList[i])
    \/ \E i \in DOMAIN ResponseList : First(ResponseList[i])
    \/ \E i \in DOMAIN ResponseList : Count(ResponseList[i])

TermSpec == TermInit /\ [][TermNext]_vars

\* C13 as stated: every call of Get, Find, First or Count issues exactly
\* one request, and the request of First carries limit=1.
C13_ExactlyOneRequest ==
    lastOp # "none" =>
        /\ sentNow = 1
        /\ lastOp = "First" => lastReq.limit = PtrTo(1)

\* C13, amended: every call of Get, Find, First or Count issues at most one
\* request and never sends one again: exactly one when the request can be
\* built (the filter can be encoded as JSON and, for First, the destination
\* is a struct or a slice), whether it then succeeds or fails, and none
\* otherwise, the call returning an error; the request of First carries
\* limit=1 for a struct and for a slice destination alike.
C13_AtMostOneRequest ==
    lastOp # "none" =>
        /\ sentNow = IF Encodable(where) /\ (lastOp = "First" => dest.k \in {"struct", "slice"})
                     THEN 1 ELSE 0
        /\ sentNow = 0 => (lastErr.t \in {"marshal", "populate"} /\ lastResp = NoResp)
        /\ (lastOp = "First" /\ sentNow = 1) => lastReq.limit = PtrTo(1)

\* First on a query that had limit 0: one request with limit=1, which failed
C13_Witness ==
    /\ lastOp = "First"
    /\ dest.k = "slice"
    /\ sentNow = 1
    /\ lastResp.k = "transport"
    /\ lastErr = ErrTransport
    /\ lastReq.limit = PtrTo(1)

\* a successful response, and its parts
Success == sentNow = 1 /\ lastResp.k = "http" /\ lastResp.status >= 200 /\ lastResp.status < 300
HasKey(key) == lastResp.body.t = "map" /\ key \in DOMAIN lastResp.body.v
EmptyResults ==
    /\ HasKey("results")
    /\ lastResp.body.v["results"].t = "list"
    /\ Len(lastResp.body.v["results"].v) = 0

\* C14: a successful response whose results array is empty makes Find and
\* First return ErrNoRows and leaves the destination as it was.  A Find made
\* after Count on the same query still asks for the count, and the answer,
\* which has a count besides its empty results, is decoded as a count.
C14_EmptyResultsGiveErrNoRows ==
    (lastOp \in {"Find", "First"} /\ Success /\ EmptyResults) =>
        /\ lastErr = ErrNoRows
        /\ dest = prevDest

\* C15: for every response with a status outside 200..299, whatever its
\* body, the caller gets no data and a ParseError whose Code() and Message()
\* are the code and error fields of the body.  A body that is not JSON, or
\* whose code is not a number, gives the error of json.Unmarshal instead.
C15_Non2xxIsParseError ==
    (sentNow = 1 /\ lastResp.k = "http" /\ ~(lastResp.status >= 200 /\ lastResp.status < 300)) =>
        /\ dest = prevDest
        /\ lastErr.t = "parseErrorT"
        /\ (HasKey("code") /\ lastResp.body.v["code"].t = "float64") =>
               lastErr.code = lastResp.body.v["code"].v
        /\ (HasKey("error") /\ lastResp.body.v["error"].t = "string") =>
               lastErr.msg = lastResp.body.v["error"].v

\* C16 as stated: the master-key header is sent if and only if the
\* operation asked for the master key and no session is bound.
C16_MasterKeyIffRequested ==
    sentNow = 1 =>
        (MasterKeyHeader \in lastReq.headers) <=> (lastReq.useMasterKey /\ session = NilPtr)

\* C16, amended: every request carries the application-id header and
\* exactly one of the REST-key and the master-key header: the master-key
\* header if and only if the operation asked for the master key, the client
\* was initialized with a non-empty master key and no session is bound,
\* otherwise the REST-key header; the session-token header is attached if
\* and only if a session is bound, and never together with the master key.
C16_KeyHeaders ==
    sentNow = 1 =>
        LET h == lastReq.headers
        IN /\ AppIdHeader \in h
           /\ (MasterKeyHeader \in h) <=>
                  (lastReq.useMasterKey /\ masterKey # "" /\ session = NilPtr)
           /\ (RestKeyHeader \in h) <=> (MasterKeyHeader \notin h)
           /\ (SessionTokenHeader \in h) <=> (session # NilPtr)
           /\ ~(SessionTokenHeader \in h /\ MasterKeyHeader \in h)

\* the master key was asked for on a query bound to a session
C16_Witness ==
    /\ sentNow = 1
    /\ lastReq.useMasterKey
    /\ masterKey # ""
    /\ session # NilPtr
    /\ lastReq.headers = {AppIdHeader, RestKeyHeader, SessionTokenHeader}

\* C18: Count returns the count field of a successful response with a nil
\* error whenever the response has one, its results array being empty or
\* not; no operation returns ErrNoRows for a response that has a count.
C18_CountReturnsCount ==
    (Success /\ HasKey("count")) =>
        /\ lastErr # ErrNoRows
        /\ lastOp = "Count" =>
              /\ lastErr = Nil
              /\ lastRet = lastResp.body.v["count"].v

C18_Witness ==
    /\ lastOp = "Count"
    /\ Success
    /\ EmptyResults
    /\ HasKey("count")
    /\ lastRet = 3
    /\ lastErr = Nil

(***************************************************************************)
(* Clone.  A query is built with Limit, Skip, OrderBy, SetBatchSize,       *)
(* Include, Keys, EqualTo and UseMasterKey, possibly after a Count, with   *)
(* or without a session, and cloned; the clone and its receiver are        *)
(* compared through payload.                                               *)
(***************************************************************************)
IncludeInputs == {{"owner"}, {"owner", "team"}}
KeysInputs == {{"name"}, {"name", "email"}}

CloneFrame ==
    /\ UNCHANGED <<qVars, eachRet, itVars, goVars, envVars, callVars, histVars, argVars, bldVars>>
    /\ UNCHANGED <<termVars, strIn, decVars, limVars, updVars, cacheVars>>

Include(fs) ==
    /\ qInclude' = qInclude \cup fs
    /\ UNCHANGED <<qKeys, cloned, clone, cloneSrc, shared>>
    /\ CloneFrame

Keys(fs) ==
    /\ qKeys' = qKeys \cup fs
    /\ UNCHANGED <<qInclude, cloned, clone, cloneSrc, shared>>
    /\ CloneFrame

\* the queryT the variables hold
QueryRec ==
    [op |-> qOp, instId |-> instId, session |-> session, useMasterKey |-> useMaster,
     limit |-> qLimit, skip |-> qSkip, count |-> qCount, orderBy |-> qOrderBy,
     batchSize |-> batchSize, where |-> where, include |-> qInclude, keys |-> qKeys]

\* a new int holding the value p points to, nil for nil
CopyPtr(p) == IF p # NilPtr THEN PtrTo(Deref(p)) ELSE NilPtr

\* Clone: the fields named in the composite literal and the six copied
\* after it; orderBy and batchSize are not among them and keep their zero
\* values.  The copy of where is one level deep: nq.where[k] = v stores the
\* same map when v is an operator sub-document (SharedAfterClone)
Clone(q) ==
    [op |-> q.op, instId |-> q.instId, session |-> q.session,
     useMasterKey |-> q.useMasterKey,
     limit |-> CopyPtr(q.limit), skip |-> CopyPtr(q.skip), count |-> CopyPtr(q.count),
     where |-> [k \in DOMAIN q.where |-> q.where[k]],
     include |-> {k \in q.include : TRUE},
     keys |-> {k \in q.keys : TRUE},
     orderBy |-> <<>>,
     batchSize |-> 0]

\* for k, v := range q.where { nq.where[k] = v }: a map value is a
\* reference, so an operator sub-document belongs to both queries
SharedAfterClone(w) == [f \in DOMAIN w |-> w[f].kind = "ops"]

CallClone ==
    /\ cloned' = TRUE
    /\ clone' = Clone(QueryRec)
    /\ cloneSrc' = QueryRec
    /\ shared' = SharedAfterClone(where)
    /\ UNCHANGED <<qInclude, qKeys>>
    /\ CloneFrame

\* payload: the request parameters of a query.  A parameter is left out
\* when its pointer is nil or its collection is empty, so the nil pointer,
\* the empty filter, the empty order and the empty sets stand for the
\* missing parameter; include and keys are joined in map order, which is
\* not fixed, so they are compared as sets.
payload(q) ==
    [where |-> IF \E f \in DOMAIN q.where : q.where[f] # NoEntry
               THEN q.where ELSE [f \in DOMAIN q.where |-> NoEntry],
     limit |-> IF q.limit # NilPtr THEN q.limit ELSE NilPtr,
     skip |-> IF q.skip # NilPtr THEN q.skip ELSE NilPtr,
     count |-> IF q.count # NilPtr THEN q.count ELSE NilPtr,
     order |-> IF Len(q.orderBy) > 0 THEN q.orderBy ELSE <<>>,
     include |-> IF Cardinality(q.include) > 0 THEN q.include ELSE {},
     keys |-> IF Cardinality(q.keys) > 0 THEN q.keys ELSE {}]

\* NewQuery(v) or Session.NewQuery(v)
CloneInit ==
    /\ InitQuery
    /\ InitIterator
    /\ InitRest
    /\ nRecords = 0
    /\ hasId = TRUE
    /\ strIn = <<>>
    /\ InitTerm
    /\ masterKey = "master_key"
    /\ session \in {NilPtr, PtrTo("session_token")}
    /\ dest = [k |-> "slice", v |-> <<>>]
    /\ prevDest = dest
    /\ InitExtra

\* the query is built, then cloned once
CloneNext ==
    \/ ~cloned /\ \E l \in LimitInputs : Limit(l)
    \/ ~cloned /\ \E s \in SkipInputs : Skip(s)
    \/ ~cloned /\ \E fs \in OrderInputs : OrderBy(fs)
    \/ ~cloned /\ \E size \in BatchInputs : SetBatchSize(size)
    \/ ~cloned /\ \E fs \in IncludeInputs : Include(fs)
    \/ ~cloned /\ \E fs \in KeysInputs : Keys(fs)
    \/ ~cloned /\ \E v \in ScalarArgs : CallEqualTo("x", v)
    \/ ~cloned /\ UseMasterKey
    \/ ~cloned /\ Count(ResponseList[1])
    \/ ~cloned /\ CallClone

CloneSpec == CloneInit /\ [][CloneNext]_vars

\* C19: the query returned by Clone has the request parameters of its
\* receiver (where, limit, skip, count, order, include and keys) and the
\* same batch size, master-key flag and session.  Clone copies neither the
\* order nor the batch size.
C19_CloneDuplicates ==
    cloned =>
        /\ payload(clone) = payload(cloneSrc)
        /\ clone.batchSize = cloneSrc.batchSize
        /\ clone.useMasterKey = cloneSrc.useMasterKey
        /\ clone.session = cloneSrc.session

(***************************************************************************)
(* populateValue on its own: a decoded JSON value is stored into a         *)
(* variable of a basic kind, or into one field of a TestUser.              *)
(***************************************************************************)
BasicKinds == <<"string", "int", "int64", "float64", "bool">>
WireVals ==
    <<JNum(0), JNum(7), JStr(""), JStr("a"), JStr("7"), JBool(TRUE), JBool(FALSE), JNull>>

DecodeFrame ==
    /\ UNCHANGED <<qVars, eachRet, itVars, goVars, envVars, callVars, histVars, argVars, bldVars>>
    /\ UNCHANGED <<termVars, strIn, cloneVars, limVars, updVars, cacheVars>>

\* populateValue(&x, src) for x of the basic kind dk; x keeps what an
\* earlier call stored in it
DecodeBasic(dk, src) ==
    LET dst == IF decDst.k = dk THEN decDst ELSE [k |-> dk, v |-> ZeroOf(dk)]
        r == populateValue(dst, src)
    IN /\ decOp' = "basic"
       /\ decKind' = dk
       /\ decSrc' = src
       /\ decDst' = r.val
       /\ decErr' = r.err
       /\ DecodeFrame

\* populateValue(&u, {name: src}) for u a TestUser and name the wire name
\* of its field f
DecodeField(f, src) ==
    LET dst == IF decDst.k = "struct" THEN decDst ELSE [k |-> "struct", v |-> ZeroStruct]
        r == populateValue(dst, JObj([n \in {WireName[f]} |-> src]))
    IN /\ decOp' = f
       /\ decKind' = FieldKinds[f]
       /\ decSrc' = src
       /\ decDst' = r.val
       /\ decErr' = r.err
       /\ DecodeFrame

DecodeInit ==
    /\ InitQuery
    /\ InitIterator
    /\ InitRest
    /\ InitAux
    /\ nRecords = 0
    /\ hasId = TRUE

DecodeNext ==
    \/ \E i \in DOMAIN BasicKinds, j \in DOMAIN WireVals : DecodeBasic(BasicKinds[i], WireVals[j])
    \/ \E f \in FieldNames, j \in DOMAIN WireVals : DecodeField(f, WireVals[j])

DecodeSpec == DecodeInit /\ [][DecodeNext]_vars

\* C20: decoding a wire value into a destination whose type it is neither
\* assignable nor convertible to returns an error.  populateValue returns
\* nil for it and leaves the destination as it was.
C20_MismatchIsError ==
    (/\ decOp # "none"
     /\ decSrc.t # "nil"
     /\ ~AssignableTo(decSrc.t, decKind)
     /\ ~ConvertibleTo(decSrc.t, decKind)) => decErr.t # "nil"

(***************************************************************************)
(* The rate limiter.  SetRateLimit(limit, burst) makes a channel of        *)
(* capacity burst and starts a goroutine that forwards every tick of       *)
(* time.Tick into it; doRequest calls limit(), a receive from that         *)
(* channel, right before httpClient.Do.  The ticker sends into a channel   *)
(* of capacity one without blocking and drops the tick when it is full.    *)
(* Tokens are counted, the times they carry are not looked at.             *)
(***************************************************************************)
LimFrame ==
    /\ UNCHANGED <<qVars, eachRet, itVars, goVars, envVars, callVars, histVars, argVars, bldVars>>
    /\ UNCHANGED <<termVars, strIn, cloneVars, decVars, updVars, cacheVars>>

\* the ticker fires
Tick ==
    /\ ticks < MaxTicks
    /\ ticks' = ticks + 1
    /\ IF tickBuf = 0
       THEN tickBuf' = 1 /\ UNCHANGED dropped
       ELSE dropped' = dropped + 1 /\ UNCHANGED tickBuf
    /\ UNCHANGED <<limBurst, limC, fwdPc, rpc, passed, sent>>
    /\ LimFrame

\* the goroutine of newRateLimiter: for t := range time.Tick(...)
FwdRecv ==
    /\ fwdPc = "recv"
    /\ tickBuf = 1
    /\ tickBuf' = 0
    /\ fwdPc' = "send"
    /\ UNCHANGED <<limBurst, limC, ticks, dropped, rpc, passed, sent>>
    /\ LimFrame

\* r.c <- t, into the buffer of the channel
FwdSend ==
    /\ fwdPc = "send"
    /\ limC < limBurst
    /\ limC' = limC + 1
    /\ fwdPc' = "recv"
    /\ UNCHANGED <<limBurst, ticks, dropped, tickBuf, rpc, passed, sent>>
    /\ LimFrame

\* a goroutine enters doRequest and builds its request
StartRequest(r) ==
    /\ rpc[r] = "idle"
    /\ rpc' = [rpc EXCEPT ![r] = "limit"]
    /\ UNCHANGED <<limBurst, limC, ticks, dropped, tickBuf, fwdPc, passed, sent>>
    /\ LimFrame

\* faulty variant of limit: the receive does not wait for a token
limit_NoWait(r) ==
    /\ rpc[r] = "limit"
    /\ rpc' = [rpc EXCEPT ![r] = "do"]
    /\ passed' = passed + 1
    /\ IF limC > 0 THEN limC' = limC - 1 ELSE UNCHANGED limC
    /\ UNCHANGED <<limBurst, ticks, dropped, tickBuf, fwdPc, sent>>
    /\ LimFrame

\* c.limiter.limit(): <-l.c takes a token from the buffer or, the buffer
\* being empty, straight from the goroutine blocked in its send; it blocks
\* otherwise
limit(r) ==
    /\ rpc[r] = "limit"
    /\ \/ limC > 0 /\ limC' = limC - 1 /\ UNCHANGED fwdPc
       \/ limC = 0 /\ fwdPc = "send" /\ fwdPc' = "recv" /\ UNCHANGED limC
    /\ rpc' = [rpc EXCEPT ![r] = "do"]
    /\ passed' = passed + 1
    /\ UNCHANGED <<limBurst, ticks, dropped, tickBuf, sent>>
    /\ LimFrame

\* defaultClient.httpClient.Do(req) and the rest of doRequest
Do(r) ==
    /\ rpc[r] = "do"
    /\ rpc' = [rpc EXCEPT ![r] = "idle"]
    /\ sent' = sent + 1
    /\ UNCHANGED <<limBurst, limC, ticks, dropped, tickBuf, fwdPc, passed>>
    /\ LimFrame

\* Initialize, then SetRateLimit(limit, burst) with limit between 1 and
\* 1000000000
LimiterInit ==
    /\ InitQuery
    /\ InitIterator
    /\ InitRest
    /\ nRecords = 0
    /\ hasId = TRUE
    /\ strIn = <<>>
    /\ InitTerm
    /\ InitClient
    /\ InitClone
    /\ InitDecode
    /\ InitUpdate
    /\ InitCache
    /\ \E burst \in 0..MaxBurst : InitLimiter(burst)

LimiterNext ==
    \/ Tick
    \/ FwdRecv
    \/ FwdSend
    \/ \E r \in Requesters : StartRequest(r)
    \/ \E r \in Requesters : limit(r)
    \/ \E r \in Requesters : Do(r)

LimiterSpec == LimiterInit /\ [][LimiterNext]_vars

\* tokens that are neither dropped nor used: in the ticker's channel, in
\* the hand of the forwarding goroutine, in the limiter's channel
InFlightTokens == tickBuf + (IF fwdPc = "send" THEN 1 ELSE 0) + limC

\* C17: every request takes exactly one token between entering the limiter
\* and being sent, and waits for it: the requests past the limiter are never
\* more than the ticks fired so far, the limiter's channel never holds more
\* than burst tokens, every tick is dropped, still on its way or used by
\* exactly one request, and a request is sent only after it passed the
\* limiter; with three goroutines issuing requests concurrently.  Besides
\* the burst tokens held by the channel, one more can wait in the hand of the
\* forwarding goroutine and one in the ticker's channel.
C17_LimiterGatesRequests ==
    /\ passed <= ticks
    /\ limC <= limBurst
    /\ InFlightTokens <= limBurst + 2
    /\ ticks = dropped + InFlightTokens + passed
    /\ passed = sent + Cardinality({r \in Requesters : rpc[r] = "do"})

\* two requests went through at once after a burst, a third goroutine is
\* blocked in limit() because no token is left
C17_Witness ==
    /\ limBurst >= 1
    /\ Cardinality({r \in Requesters : rpc[r] = "do"}) = 2
    /\ \E r \in Requesters : rpc[r] = "limit"
    /\ InFlightTokens = 0
    /\ passed = ticks

(***************************************************************************)
(* Claims about the callers of Cancel and the flag they read.              *)
(***************************************************************************)
\* the loop of the goroutine has not been left: the cancel channel may
\* still be read
InLoop == {"start", "check", "request", "await", "deliver"}

\* caller c can never return: it waits to send on the full cancel channel
\* after the goroutine has left its loop, or it waits for the mutex held by
\* such a caller
Blocked(c) ==
    \/ cpc[c] = "send" /\ Len(cancelCh) = 1 /\ pc \in PostLoop
    \/ /\ cpc[c] = "lock"
       /\ \E d \in Callers \ {c} :
             mu = d /\ cpc[d] = "send" /\ Len(cancelCh) = 1 /\ pc \in PostLoop

\* C21: every call of Cancel or CancelError returns: no caller is ever left
\* waiting for a send on the cancel channel that nobody will receive, or for
\* the mutex that such a caller holds.  The cancel channel holds one value;
\* a second call made while the flag is still set waits to send, holding the
\* mutex, and the goroutine that has left its loop never receives.
C21_CancelReturns == \A c \in Callers : ~Blocked(c)

\* C22: a call of Cancel or CancelError that takes the mutex while the
\* goroutine has not left its loop goes on to put its signal on the cancel
\* channel, also when the goroutine has not run its first statement yet,
\* and returns only after having put it there.  The flag is set by the
\* goroutine's first statement, so a call that runs before it finds the flag
\* unset and returns without a signal.
C22_CancelNotDropped ==
    /\ [][\A c \in Callers :
            (cpc[c] = "lock" /\ cpc'[c] # "lock" /\ pc \in InLoop) => cpc'[c] = "send"]_vars
    /\ [][\A c \in Callers :
            (cpc[c] = "send" /\ cpc'[c] # "send") => cancelCh' = Append(cancelCh, ckind[c])]_vars

\* C23: the flag is read and written only under the mutex: it does not
\* change while a caller holds the mutex, a caller goes on to send only when
\* the flag is set at that moment, and the flag is still set while the
\* caller sends.  The goroutine sets and clears the flag without taking the
\* mutex.
C23_FlagUnderMutex ==
    /\ [][mu # "free" => iterating' = iterating]_vars
    /\ [][\A c \in Callers : (cpc[c] = "lock" /\ cpc'[c] = "send") => iterating]_vars
    /\ [](\A c \in Callers : cpc[c] = "send" => iterating)

\* C24: on every way out of the loop the goroutine sends one completion
\* value on Done, then closes the result channel, then closes Done, each
\* once; nothing is sent on the result channel once it is closed, and the
\* completion send finds Done's buffer empty, so it does not wait for a
\* reader.
C24_ChannelsClosedOnce ==
    /\ [][(pc = "closeRc" /\ pc' # pc) => (~rcClosed /\ rcClosed' /\ ~resClosed')]_vars
    /\ [][(pc = "closeDone" /\ pc' # pc) => (rcClosed /\ ~resClosed /\ resClosed')]_vars
    /\ [][(rcClosed => rcClosed') /\ (resClosed => resClosed')]_vars
    /\ [][(rcClosed' # rcClosed) => pc = "closeRc"]_vars
    /\ [][(resClosed' # resClosed) => pc = "closeDone"]_vars
    /\ [][rcClosed => delivered' = delivered]_vars
    /\ [](rcClosed => Len(doneSent) = 1)
    /\ [](pc \in {"signal", "sendErr"} => (Len(resChan) = 0 /\ Len(doneSent) = 0))
    /\ [](pc = "exited" => (rcClosed /\ resClosed))

\* a request error ended the iteration and nobody has read Done
C24_Witness ==
    /\ pc = "exited"
    /\ err = ErrRequest
    /\ rcClosed
    /\ resClosed
    /\ doneRecv = <<>>
    /\ resChan = <<ErrRequest>>
    /\ delivered = <<1, 2>>

(***************************************************************************)
(* Each on a query whose filter already constrains objectId.               *)
(***************************************************************************)
\* the filters the caller has built before Each: none, EqualTo("objectId",
\* 2), LessThan("objectId", 3), GreaterThan("objectId", 1)
CallerFilters ==
    <<[f \in Fields |-> NoEntry],
      EqualTo([f \in Fields |-> NoEntry], "objectId", Scalar(2)),
      LessThan([f \in Fields |-> NoEntry], "objectId", Scalar(3)),
      GreaterThan([f \in Fields |-> NoEntry], "objectId", Scalar(1))>>

CursorInit ==
    /\ qLimit = NilPtr
    /\ qSkip = NilPtr
    /\ qOrderBy = <<>>
    /\ batchSize = 0
    /\ \E i \in DOMAIN CallerFilters : where = CallerFilters[i]
    /\ InitIterator
    /\ InitRest
    /\ InitAux
    /\ nRecords \in 0..MaxN
    /\ hasId \in BOOLEAN

CursorNext ==
    \/ \E size \in BatchInputs : SetBatchSize(size)
    \/ Each
    \/ GoStart
    \/ GoCheckCancel
    \/ GoRequest
    \/ GoResponse
    \/ GoRequestFails
    \/ GoDecodeFails
    \/ GoSendErr
    \/ GoSend
    \/ GoAdvance
    \/ GoSignal
    \/ GoCloseRc
    \/ GoCloseDone
    \/ GoClearFlag
    \/ RecvDone

CursorSpec == CursorInit /\ [][CursorNext]_vars

\* C25: every request of an iteration is at least as strict on objectId as
\* the first one, which carries the filter Each was called with, and is the
\* same on every other field; so every element sent on the result channel
\* matches the caller's filter.  The cursor replaces an equality on objectId
\* by its own $gt.
C25_CursorKeepsFilter ==
    /\ \A i \in 1..Len(requests) :
          /\ \A f \in Fields \ {"objectId"} : requests[i].where[f] = requests[1].where[f]
          /\ \A id \in 1..nRecords :
                Matches(id, requests[i].where["objectId"]) =>
                    Matches(id, requests[1].where["objectId"])
    /\ \A j \in 1..Len(delivered) :
          Len(requests) > 0 /\ Matches(delivered[j], requests[1].where["objectId"])

(***************************************************************************)
(* A query and its clone.  The filter of the original is built, the query  *)
(* is cloned, and builder calls go on on both.  A merging operator writes  *)
(* into the map it finds in the entry (m[key] = qv); when the entry of the *)
(* other query is that same map, the other query changes with it.          *)
(***************************************************************************)
AliasFrame ==
    /\ UNCHANGED <<qLimit, qSkip, qOrderBy, batchSize>>
    /\ UNCHANGED <<eachRet, itVars, goVars, envVars, callVars, histVars, argVars>>
    /\ UNCHANGED <<lastVal, usedEq, eqArg>>
    /\ UNCHANGED <<termVars, strIn, decVars, limVars, updVars, cacheVars>>
    /\ UNCHANGED <<qInclude, qKeys, cloned, cloneSrc>>

\* q.GreaterThan, q.LessThan, ... after q2 := q.Clone()
MergeOnOriginal(f, key, qv) ==
    /\ cloned
    /\ nCalls < MaxCalls
    /\ nCalls' = nCalls + 1
    /\ where' = MergeOp(where, f, key, qv)
    /\ IF where[f].kind = "ops"
       THEN /\ clone' = IF shared[f]
                        THEN [clone EXCEPT !.where[f] = MergeOp(where, f, key, qv)[f]]
                        ELSE clone
            /\ UNCHANGED shared
       ELSE /\ shared' = [shared EXCEPT ![f] = FALSE]
            /\ UNCHANGED clone
    /\ AliasFrame

\* q2.GreaterThan, q2.LessThan, ... on the clone
MergeOnClone(f, key, qv) ==
    /\ cloned
    /\ nCalls < MaxCalls
    /\ nCalls' = nCalls + 1
    /\ clone' = [clone EXCEPT !.where = MergeOp(clone.where, f, key, qv)]
    /\ IF clone.where[f].kind = "ops"
       THEN /\ where' = IF shared[f]
                        THEN [where EXCEPT ![f] = MergeOp(clone.where, f, key, qv)[f]]
                        ELSE where
            /\ UNCHANGED shared
       ELSE /\ shared' = [shared EXCEPT ![f] = FALSE]
            /\ UNCHANGED where
    /\ AliasFrame

\* q.EqualTo(f, v) after the clone was made: the entry is replaced
EqualToOnOriginal(f, v) ==
    /\ cloned
    /\ nCalls < MaxCalls
    /\ nCalls' = nCalls + 1
    /\ where' = EqualTo(where, f, v)
    /\ shared' = [shared EXCEPT ![f] = FALSE]
    /\ UNCHANGED clone
    /\ AliasFrame

\* q2.EqualTo(f, v)
EqualToOnClone(f, v) ==
    /\ cloned
    /\ nCalls < MaxCalls
    /\ nCalls' = nCalls + 1
    /\ clone' = [clone EXCEPT !.where = EqualTo(clone.where, f, v)]
    /\ shared' = [shared EXCEPT ![f] = FALSE]
    /\ UNCHANGED where
    /\ AliasFrame

\* q2.Include(fs...) and q2.Keys(fs...): the clone has maps of its own
IncludeOnClone(fs) ==
    /\ cloned
    /\ clone' = [clone EXCEPT !.include = @ \cup fs]
    /\ UNCHANGED <<where, nCalls, shared>>
    /\ AliasFrame

KeysOnClone(fs) ==
    /\ cloned
    /\ clone' = [clone EXCEPT !.keys = @ \cup fs]
    /\ UNCHANGED <<where, nCalls, shared>>
    /\ AliasFrame

AliasInit ==
    /\ InitQuery
    /\ InitIterator
    /\ InitRest
    /\ InitAux
    /\ nRecords = 0
    /\ hasId = TRUE

AliasNext ==
    \/ ~cloned /\ \E f \in Fields, v \in ScalarArgs : CallEqualTo(f, v)
    \/ ~cloned /\ \E f \in Fields, v \in ScalarArgs : CallGreaterThan(f, v)
    \/ ~cloned /\ CallClone
    \/ Include({"owner"})
    \/ Keys({"name"})
    \/ \E f \in Fields, v \in ScalarArgs : MergeOnOriginal(f, "$lt", DateOrSelf(v))
    \/ \E f \in Fields, v \in ScalarArgs : MergeOnClone(f, "$gt", DateOrSelf(v))
    \/ \E f \in Fields, v \in ScalarArgs : EqualToOnOriginal(f, v)
    \/ \E f \in Fields, v \in ScalarArgs : EqualToOnClone(f, v)
    \/ IncludeOnClone({"team"})
    \/ KeysOnClone({"email"})

AliasSpec == AliasInit /\ [][AliasNext]_vars

\* C26: once the clone exists, a builder call changes the filter, the
\* include set and the keys set of the query it is called on only: no step
\* changes those of the original and of the clone together, a call on the
\* clone leaves the original's as they were and a call on the original
\* leaves the clone's.  An operator sub-document is one map held by both.
C26_CloneIndependent ==
    [][(cloned /\ cloned') =>
         \/ <<where', qInclude', qKeys'>> = <<where, qInclude, qKeys>>
         \/ <<clone'.where, clone'.include, clone'.keys>> = <<clone.where, clone.include, clone.keys>>]_vars

\* C27: First and Count leave the limit and the count of the query as they
\* found them, so a Find sends no count parameter.  First stores limit 1 in
\* the query, Count stores limit 0 and count 1, and neither restores them.
C27_TerminalOpsKeepPaging ==
    /\ [][(lastOp' \in {"First", "Count"} /\ lastOp' # lastOp) =>
            (qLimit' = qLimit /\ qCount' = qCount)]_vars
    /\ []((lastOp = "Find" /\ sentNow = 1) => lastReq.count = NilPtr)

(***************************************************************************)
(* Update: NewUpdate(&TestUser{...}), the builder calls Set, Increment and *)
(* Delete, and Execute.                                                    *)
(***************************************************************************)

UpdFrame ==
    /\ UNCHANGED <<qVars, eachRet, itVars, goVars, envVars, callVars, histVars, argVars>>
    /\ UNCHANGED <<lastVal, usedEq, eqArg>>
    /\ UNCHANGED <<qCount, qOp, instId, useMaster, session, masterKey>>
    /\ UNCHANGED <<strIn, cloneVars, decVars, limVars, cacheVars>>

UpdBuilderFrame ==
    /\ nCalls < MaxCalls
    /\ nCalls' = nCalls + 1
    /\ UNCHANGED <<dest, prevDest, sentNow, lastReq, lastOp, lastErr, lastRet, lastResp>>
    /\ UpdFrame

\* the values a caller hands to Set and Increment
SetInputs == [email |-> {GoVal("string", "b")}, followers |-> {GoVal("int", 5)}]
IncrInputs == {GoVal("int", 1), GoVal("int", 2)}

\* Set stores the value as encodeForRequest leaves it: a string or an
\* integer is stored as it is
Set(f, v) ==
    /\ values' = [values EXCEPT ![f] = [type |-> "Set", v |-> v]]
    /\ UpdBuilderFrame

Increment(f, v) ==
    /\ values' = [values EXCEPT ![f] = [type |-> "Increment", v |-> v]]
    /\ UpdBuilderFrame

Delete(f) ==
    /\ values' = [values EXCEPT ![f] = [type |-> "Delete", v |-> NoOp.v]]
    /\ UpdBuilderFrame

\* Execute, the body of its loop for one key: what the pending operation
\* makes of the field of kind dk that holds cur
ApplyOp(dk, cur, op) ==
    CASE op.type = "Set" -> populateValue([k |-> dk, v |-> cur], op.v).val.v
      [] op.type = "Increment" ->
            IF dk = "int" /\ ConvertibleTo(op.v.t, dk)
            THEN GoVal(dk, cur.v + op.v.v)
            ELSE cur
      [] op.type = "Delete" -> ZeroOf(dk)
      [] OTHER -> cur

\* Execute, its loop: every key of values that names a field of the
\* instance is applied to that field
ApplyValues(inst, vals) ==
    [f \in FieldNames |->
        IF WireName[f] \in DOMAIN vals
        THEN ApplyOp(FieldKinds[f], inst[f], vals[WireName[f]])
        ELSE inst[f]]

\* Execute: the pending operations are applied to the instance, then the
\* request is made; its error is returned, else the response is decoded
\* into the instance
Execute(resp) ==
    LET req == RequestOf("update", NilPtr, NilPtr, NilPtr)
        r == doRequest(req, resp)
        applied == [k |-> "struct", v |-> ApplyValues(dest.v, values)]
        h == handleResponse(r.body, applied)
    IN /\ nCalls < MaxCalls
       /\ nCalls' = nCalls + 1
       /\ dest' = IF r.err = Nil THEN h.val ELSE applied
       /\ Returned("Execute", req, r, resp, IF r.err # Nil THEN r.err ELSE h.err, 0)
       /\ UNCHANGED values
       /\ UpdFrame

\* the answers of the backend to an update: no answer, a refusal, or the
\* new updatedAt
UpdateResponses ==
    <<ResponseList[1], Http(404, ErrBodies[1]), Http(200, JObj([updatedAt |-> JStr("t")]))>>

\* NewUpdate(&TestUser{Id: "1", Email: "a", FCount: 1})
UpdateInit ==
    /\ InitQuery
    /\ InitIterator
    /\ InitRest
    /\ nRecords = 0
    /\ hasId = TRUE
    /\ strIn = <<>>
    /\ InitExtra
    /\ InitTerm
    /\ masterKey = "master_key"
    /\ session = NilPtr
    /\ dest = [k |-> "struct",
               v |-> [Id |-> GoVal("string", "1"), Email |-> GoVal("string", "a"),
                      FCount |-> GoVal("int", 1)]]
    /\ prevDest = dest

UpdateNext ==
    \/ \E f \in UpdKeys : \E v \in SetInputs[f] : Set(f, v)
    \/ \E f \in UpdKeys : \E v \in IncrInputs : Increment(f, v)
    \/ \E f \in UpdKeys : Delete(f)
    \/ \E i \in DOMAIN UpdateResponses : Execute(UpdateResponses[i])

UpdateSpec == UpdateInit /\ [][UpdateNext]_vars

\* C28: when the request issued by Execute fails (a transport error or a
\* status outside 200..299), the instance bound to the update is as it was
\* before the call: no pending Set, Increment or Delete has been applied.
C28_FailedExecuteLeavesInstance ==
    (lastOp = "Execute" /\ sentNow = 1 /\ ~Success) => dest = prevDest

(***************************************************************************)
(* getFieldNameMap and the package-level fieldNameCache.  The cache is a   *)
(* Go map read and written without a lock: an access made while another    *)
(* goroutine is writing to the map is a data race, which the runtime may   *)
(* stop with a fatal error or may let through.                             *)
(***************************************************************************)

CacheFrame ==
    /\ UNCHANGED <<qVars, eachRet, itVars, goVars, envVars, callVars, histVars, argVars, bldVars>>
    /\ UNCHANGED <<termVars, strIn, cloneVars, decVars, limVars, updVars>>

\* a goroutine enters getFieldNameMap with a value of type t
CallFieldNameMap(g, t) ==
    /\ ~fatal
    /\ gpc[g] \in {"idle", "done"}
    /\ gpc' = [gpc EXCEPT ![g] = "lookup"]
    /\ gType' = [gType EXCEPT ![g] = t]
    /\ UNCHANGED <<fieldNameCache, mapWriters, gMap, gRet, fatal>>
    /\ CacheFrame

\* what `fieldNameCache[t]` can give: the entry, when no goroutine is
\* writing to the map; else the fatal error of the runtime, the entry as it
\* was, or the entry being written
ReadOutcomes(t) ==
    IF mapWriters = {} THEN {[k |-> "read", e |-> fieldNameCache[t]]}
    ELSE {[k |-> "fatal", e |-> NoEntryFor], [k |-> "read", e |-> fieldNameCache[t]]}
           \cup {[k |-> "read", e |-> [ok |-> TRUE, m |-> gMap[w]]] :
                    w \in {x \in mapWriters : gType[x] = t}}

\* `if f, ok := fieldNameCache[t]; ok { return f }`, and on a miss
\* getFields and the loop that fills fieldMap
Lookup(g) ==
    /\ ~fatal
    /\ gpc[g] = "lookup"
    /\ \E o \in ReadOutcomes(gType[g]) :
          /\ fatal' = (o.k = "fatal")
          /\ gpc' = [gpc EXCEPT ![g] = IF o.k = "fatal" THEN "fatal"
                                       ELSE IF o.e.ok THEN "done" ELSE "store"]
          /\ gRet' = [gRet EXCEPT ![g] = IF o.k = "read" /\ o.e.ok THEN o.e.m ELSE @]
          /\ gMap' = [gMap EXCEPT ![g] = IF o.k = "read" /\ ~o.e.ok
                                         THEN FieldMapLoop({}, getFields(TypeList[gType[g]]))
                                         ELSE @]
    /\ UNCHANGED <<fieldNameCache, mapWriters, gType>>
    /\ CacheFrame

\* `fieldNameCache[t] = fieldMap`, the write begins: alone when nobody else
\* is writing; else the runtime stops the process or lets the write through
StoreBegin(g) ==
    /\ ~fatal
    /\ gpc[g] = "store"
    /\ \E o \in (IF mapWriters = {} THEN {"write"} ELSE {"write", "fatal"}) :
          /\ fatal' = (o = "fatal")
          /\ gpc' = [gpc EXCEPT ![g] = IF o = "fatal" THEN "fatal" ELSE "storing"]
          /\ mapWriters' = IF o = "fatal" THEN mapWriters ELSE mapWriters \cup {g}
    /\ UNCHANGED <<fieldNameCache, gType, gMap, gRet>>
    /\ CacheFrame

\* the write ends, and `return fieldMap`
StoreEnd(g) ==
    /\ ~fatal
    /\ gpc[g] = "storing"
    /\ fieldNameCache' = [fieldNameCache EXCEPT ![gType[g]] = [ok |-> TRUE, m |-> gMap[g]]]
    /\ mapWriters' = mapWriters \ {g}
    /\ gRet' = [gRet EXCEPT ![g] = gMap[g]]
    /\ gpc' = [gpc EXCEPT ![g] = "done"]
    /\ UNCHANGED <<gType, gMap, fatal>>
    /\ CacheFrame

\* one goroutine calling getFieldNameMap on a type after another
FieldMapInit ==
    /\ InitQuery
    /\ InitIterator
    /\ InitRest
    /\ nRecords = 0
    /\ hasId = TRUE
    /\ InitAux

FieldMapNext ==
    \/ \E t \in Types : CallFieldNameMap("g1", t)
    \/ Lookup("g1")
    \/ StoreBegin("g1")
    \/ StoreEnd("g1")

FieldMapSpec == FieldMapInit /\ [][FieldMapNext]_vars

Tagged(f) == parseTag(f.tag).name \notin {"", "-"}
MapKeys(m) == {p[1] : p \in m}
\* every tagged, exported field of an anonymous struct of the type has its
\* wire name in m
FlattenedInto(t, m) ==
    \A i \in DOMAIN t :
        (t[i].anonymous /\ t[i].kind \in {"struct", "ptr"}) =>
            \A j \in DOMAIN t[i].elem :
                (~t[i].elem[j].anonymous /\ t[i].elem[j].pkgPath = "" /\ Tagged(t[i].elem[j]))
                    => parseTag(t[i].elem[j].tag).name \in MapKeys(m)

\* C29 as stated: embedded structs contribute their tagged fields as if
\* flattened into the parent, and of two fields with the same wire name the
\* first in depth-first order is the one the wire name maps to.
C29_FirstOccurrenceWins ==
    \A g \in Goroutines :
        gpc[g] = "done" =>
            LET fs == getFields(TypeList[gType[g]])
            IN /\ FlattenedInto(TypeList[gType[g]], gRet[g])
               /\ \A i \in DOMAIN fs :
                     (Tagged(fs[i]) /\ \A j \in 1..(i - 1) :
                                          parseTag(fs[j].tag).name # parseTag(fs[i].tag).name)
                         => <<parseTag(fs[i].tag).name, fs[i].name>> \in gRet[g]

\* C29, amended: embedded structs contribute their tagged fields as if
\* flattened into the parent, and of two fields with the same wire name the
\* last in depth-first order is the one the wire name maps to.
C29_LastOccurrenceWins ==
    \A g \in Goroutines :
        gpc[g] = "done" =>
            LET fs == getFields(TypeList[gType[g]])
            IN /\ FlattenedInto(TypeList[gType[g]], gRet[g])
               /\ \A i \in DOMAIN fs :
                     (Tagged(fs[i]) /\ \A j \in (i + 1)..Len(fs) :
                                          parseTag(fs[j].tag).name # parseTag(fs[i].tag).name)
                         => <<parseTag(fs[i].tag).name, fs[i].name>> \in gRet[g]

\* C29, its case: the mapping of a struct that embeds Base (Id tagged
\* objectId) and then declares Key with the same tag has been built
C29_Witness ==
    /\ gpc["g1"] = "done"
    /\ gType["g1"] = 2
    /\ gRet["g1"] = {<<"objectId", "Key">>, <<"ACL", "ACL">>}

\* several goroutines calling getFieldNameMap while the cache is cold (the
\* goroutine of Each decoding a batch while its caller runs another
\* operation on a value of the same or of another type)
CacheTypes == {1, 2}
CacheNext ==
    \/ \E g \in Goroutines : \E t \in CacheTypes : CallFieldNameMap(g, t)
    \/ \E g \in Goroutines : Lookup(g)
    \/ \E g \in Goroutines : StoreBegin(g)
    \/ \E g \in Goroutines : StoreEnd(g)

CacheSpec == FieldMapInit /\ [][CacheNext]_vars

\* C30: the first population of the cache by several goroutines at once is
\* benign: no call is stopped, every call that has returned has returned
\* the mapping of its type, and the cache holds that mapping and no other.
C30_ColdCacheRaceBenign ==
    /\ ~fatal
    /\ \A g \in Goroutines :
          gpc[g] = "done" => gRet[g] = FieldMapLoop({}, getFields(TypeList[gType[g]]))
    /\ \A t \in Types :
          fieldNameCache[t].ok =>
              fieldNameCache[t].m = FieldMapLoop({}, getFields(TypeList[t]))

====
